---- MODULE Spec2Model ----
(***************************************************************************)
(* A model of pygeoogc: the CRS matcher (utils.match_crs), the bounding    *)
(* box tiler (utils.bbox_decompose), the identifier batching of            *)
(* WFS.getfeature_byid / ArcGISRESTful.partition_oids, the object-ID       *)
(* discovery queries (ArcGISRESTful.oids_bygeom / oids_bysql), the WFS     *)
(* queries by box, geometry and filter, the object-ID retrieval, the tile  *)
(* requests of WMS.getmap_bybox, the builders of utils.ESRIGeomQuery and   *)
(* the HTTP session utils.RetrySession.                                    *)
(*                                                                         *)
(* Numbers are integers; the quotients that bbox_decompose forms are kept  *)
(* as exact fractions <<numerator, denominator>> in lowest terms, so that  *)
(* "equal" means equal and not "equal up to rounding".                     *)
(***************************************************************************)
EXTENDS Integers, Sequences, FiniteSets, TLC

VARIABLES
    tl_bbox,    \* bbox_decompose: the bbox argument
    tl_res,     \* bbox_decompose: the resolution argument
    tl_crs,     \* bbox_decompose: the box_crs argument
    tl_maxpx,   \* bbox_decompose: the max_px argument
    tl_pc,      \* "call" before bbox_decompose ran, "done" after
    tl_ret,     \* outcome of bbox_decompose
    mc_geom,    \* match_crs: the geom argument
    mc_in,      \* match_crs: the in_crs argument
    mc_out,     \* match_crs: the out_crs argument
    mc_pc,      \* "call", "forward" (after match_crs(geom, in, out)), "back"
    mc_fwd,     \* outcome of match_crs(geom, in_crs, out_crs)
    mc_back,    \* outcome of match_crs(mc_fwd, out_crs, in_crs)
    wf_call,    \* WFS.getfeature_byid: featurename (is it valid) and featureids
    wf_n,       \* WFS.max_nrecords
    wf_pc,      \* "call", "posting", "done"
    wf_batches, \* the batches that partition_all yields
    wf_sent,    \* the requests sent so far, in order
    wf_ret,     \* outcome of getfeature_byid
    dq_call,    \* the discovery query called and its arguments
    dq_n,       \* max_nrecords of the ArcGIS client
    dq_pc,      \* "call", "awaiting" (request sent), "done"
    dq_sent,    \* number of requests sent to the service
    dq_resp,    \* the service's response to the query
    dq_ret,     \* outcome of the discovery query
    fl_call,    \* WFS.getfeature_bygeom / getfeature_byfilter: the call, its arguments
    fl_pc,      \* "call", "awaiting" (request sent), "done"
    fl_sent,    \* the requests sent so far, in order
    fl_ret,     \* outcome of the call
    gf_ids,     \* get_features: the identifiers requested
    gf_cfg,     \* the client's max_workers, disable_retry, max_nrecords; persist
    gf_state,   \* COLLECTING, BATCHING, FETCHING, RECONCILING, RETRYING, DONE
    gf_pass,    \* 0 in the first fetch pass, 1 in the retry pass, ...
    gf_pending, \* the identifiers that the pass has to request
    gf_batches, \* the batches of the pass
    gf_fetch,   \* per batch of the pass: queued, in flight or collected; outcome
    gf_order,   \* the batches of the pass in the order their fetches completed
    gf_result,  \* the features fetched so far, each named by its identifier
    gf_missing, \* the missing set that the last reconciliation found
    gf_file,    \* the identifiers written to the failure file
    gf_log,     \* per finished pass: the identifiers it requested and missed
    gm_wms,     \* WMS: the version, crs_str and layers of the instance
    gm_call,    \* WMS.getmap_bybox: its arguments
    gm_pc,      \* "call", "fetching" (retrieve_binary runs), "done"
    gm_reqs,    \* the keys and payloads of the requests, in order
    gm_slots,   \* per request: "queued", "inflight" or "done"
    gm_ret,     \* outcome of getmap_bybox
    eq_geom,    \* ESRIGeomQuery: the geometry field
    eq_wkid,    \* ESRIGeomQuery: the wkid field
    eq_kind,    \* the builder called: point, multipoint, bbox, polygon, polyline
    eq_pc,      \* "call" before the builder ran, "done" after
    eq_ret,     \* outcome of the builder
    rs_cfg,     \* RetrySession: retries, status_to_retry, prefixes
    rs_call,    \* the request: get, post or head, and the scheme of its url
    rs_pc,      \* "call", "wire" (the request is with the transport), "done"
    rs_tries,   \* the retries that the transport made for the request
    rs_resp,    \* the last response of the service
    rs_ret      \* outcome of get, post or head

tl_vars == <<tl_bbox, tl_res, tl_crs, tl_maxpx, tl_pc, tl_ret>>
mc_vars == <<mc_geom, mc_in, mc_out, mc_pc, mc_fwd, mc_back>>
wf_vars == <<wf_call, wf_n, wf_pc, wf_batches, wf_sent, wf_ret>>
dq_vars == <<dq_call, dq_n, dq_pc, dq_sent, dq_resp, dq_ret>>
fl_vars == <<fl_call, fl_pc, fl_sent, fl_ret>>
gf_vars == <<gf_ids, gf_cfg, gf_state, gf_pass, gf_pending, gf_batches, gf_fetch, gf_order,
             gf_result, gf_missing, gf_file, gf_log>>
gm_vars == <<gm_wms, gm_call, gm_pc, gm_reqs, gm_slots, gm_ret>>
eq_vars == <<eq_geom, eq_wkid, eq_kind, eq_pc, eq_ret>>
rs_vars == <<rs_cfg, rs_call, rs_pc, rs_tries, rs_resp, rs_ret>>
vars == <<tl_vars, mc_vars, wf_vars, dq_vars, fl_vars, gf_vars, gm_vars, eq_vars, rs_vars>>

----------------------------------------------------------------------------
(* Bounds of the model *)

\* coordinates of the inputs range over 0..MaxCoord
MaxCoord == 2
\* resolutions range over -1..MaxRes
MaxRes == 3
\* pixel budgets range over -1..MaxPx
MaxPx == 9
\* identifiers range over 1..MaxId
MaxId == 3
\* identifier lists have at most MaxIds entries
MaxIds == 3
\* max_nrecords ranges over 1..MaxRecords
MaxRecords == 2
\* max_workers ranges over 1..MaxWorkers
MaxWorkers == 2
\* retries ranges over 0..MaxRetries
MaxRetries == 2

----------------------------------------------------------------------------
(* Arithmetic *)

Abs(a) == IF a < 0 THEN -a ELSE a

Min(S) == CHOOSE m \in S : \A s \in S : m <= s
Max(S) == CHOOSE m \in S : \A s \in S : m >= s

RECURSIVE GCD(_, _)
GCD(a, b) == IF b = 0 THEN a ELSE GCD(b, a % b)

\* the fraction n/d (d > 0) in lowest terms
Rat(n, d) == LET g == GCD(Abs(n), d) IN <<n \div g, d \div g>>

RatLeq(a, b) == a[1] * b[2] <= b[1] * a[2]
RatLt(a, b) == a[1] * b[2] < b[1] * a[2]

RECURSIVE SumSeq(_)
SumSeq(s) == IF s = <<>> THEN 0 ELSE s[1] + SumSeq(Tail(s))

\* math.ceil(a / b) for a >= 0 and b # 0
CeilDiv(a, b) == IF b > 0 THEN (a + b - 1) \div b ELSE -(a \div (-b))

\* int(a / b) for b > 0: the quotient truncated toward zero
TruncDiv(a, b) == IF a >= 0 THEN a \div b ELSE -((-a) \div b)

\* int(math.sqrt(n)) for n >= 0
ISqrt(n) == CHOOSE r \in 0..n : r * r <= n /\ (r + 1) * (r + 1) > n

----------------------------------------------------------------------------
(* Values: geometries, spatial references, outcomes *)

ShapelyClasses ==
    {"Polygon", "LineString", "MultiLineString", "MultiPolygon", "Point", "MultiPoint"}

\* A Python value passed as a geometry: cls is its class; a tuple or a list of
\* numbers keeps them in nums; a list of coordinate tuples, or a shapely
\* geometry (its vertices), keeps them in pts.
Geom(cls, nums, pts) == [cls |-> cls, nums |-> nums, pts |-> pts]
NoGeom == Geom("None", <<>>, <<>>)

\* A spatial reference as the caller writes it: the integer 4326 or the
\* string "epsg:4326"; pyproj.CRS resolves both to the same definition.
Ref(form, code) == [form |-> form, code |-> code]
CrsCodes == {4326, 3857, 5070}
Refs == {Ref(f, c) : f \in {"int", "str"}, c \in CrsCodes}

Ok(v) == [kind |-> "ok", val |-> v]
Raise(e) == [kind |-> e, val |-> NoGeom]

----------------------------------------------------------------------------
(* utils.match_crs *)

\* pyproj.CRS(ref): the canonical definition of a reference
CRS(ref) == ref.code

\* the references compared as written
SameCrsAsWritten(in_crs, out_crs) == in_crs = out_crs

\* pyproj.CRS(in_crs) == pyproj.CRS(out_crs)
SameCrs(in_crs, out_crs) == CRS(in_crs) = CRS(out_crs)

\* The projections of the three references, from and to geographic
\* coordinates. 4326 is geographic. 3857 stands for a projection whose easting
\* depends on the longitude alone and whose northing on the latitude alone
\* (Mercator); 5070 for a conic one, whose easting depends on both.
FromGeo(c, p) ==
    CASE c = 4326 -> p
      [] c = 3857 -> <<p[1] + 1, p[2] + 2>>
      [] c = 5070 -> <<p[1] + p[2], p[2]>>

ToGeo(c, p) ==
    CASE c = 4326 -> p
      [] c = 3857 -> <<p[1] - 1, p[2] - 2>>
      [] c = 5070 -> <<p[1] - p[2], p[2]>>

\* a transform that takes its input for geographic coordinates
projectFromGeographic(in_crs, out_crs, p) == FromGeo(CRS(out_crs), p)

\* pyproj.Transformer.from_crs(in_crs, out_crs, always_xy=True).transform
project(in_crs, out_crs, p) == FromGeo(CRS(out_crs), ToGeo(CRS(in_crs), p))

\* the vertices of shapely.geometry.box(minx, miny, maxx, maxy)
box(b) == << <<b[3], b[2]>>, <<b[3], b[4]>>, <<b[1], b[4]>>, <<b[1], b[2]>> >>

\* the .bounds of a geometry with vertices pts
bounds(pts) ==
    LET X == {pts[i][1] : i \in DOMAIN pts}
        Y == {pts[i][2] : i \in DOMAIN pts}
    IN  <<Min(X), Min(Y), Max(X), Max(Y)>>

match_crs(geom, in_crs, out_crs) ==
    IF SameCrs(in_crs, out_crs) THEN Ok(geom)
    ELSE IF geom.cls \in ShapelyClasses
    THEN Ok([geom EXCEPT !.pts = [i \in DOMAIN geom.pts |->
                                     project(in_crs, out_crs, geom.pts[i])]])
    ELSE IF geom.cls = "tuple" /\ Len(geom.nums) = 4
    THEN Ok([geom EXCEPT !.nums =
                bounds([i \in 1..4 |-> project(in_crs, out_crs, box(geom.nums)[i])])])
    ELSE IF geom.cls = "list"
    THEN IF geom.nums # <<>>
         THEN Raise("TypeError")        \* len() of a number
         ELSE IF \E i \in DOMAIN geom.pts : Len(geom.pts[i]) # 2
         THEN Raise("InputTypeError")
         ELSE IF geom.pts = <<>>
         THEN Raise("ValueError")       \* xx, yy = zip(*[])
         ELSE Ok([geom EXCEPT !.pts = [i \in DOMAIN geom.pts |->
                                          project(in_crs, out_crs, geom.pts[i])]])
    ELSE Raise("InputTypeError")

----------------------------------------------------------------------------
(* utils.ESRIGeomQuery *)

\* the elements of a tuple or a list: its numbers, or its coordinate tuples
Elements(geom) == IF geom.nums # <<>> THEN geom.nums ELSE geom.pts

\* _get_payload: json.dumps of the geometry with the wkid, and the wkid
get_payload(wkid, geo_type, geo_json) ==
    [kind |-> "ok",
     geometryType |-> geo_type,
     geometry |-> [geo_json |-> geo_json, spatialRelference |-> [wkid |-> ToString(wkid)]],
     inSR |-> ToString(wkid)]

EqRaise(kind) ==
    [kind |-> kind, geometryType |-> "",
     geometry |-> [geo_json |-> <<>>, spatialRelference |-> [wkid |-> ""]], inSR |-> ""]

esri_point(geometry, wkid) ==
    IF ~(geometry.cls = "tuple" /\ Len(Elements(geometry)) = 2)
    THEN EqRaise("InputTypeError")
    ELSE get_payload(wkid, "esriGeometryPoint",
                     [x |-> Elements(geometry)[1], y |-> Elements(geometry)[2]])

\* all(len(g) == 2 for g in geometry) raises TypeError at a number
esri_multipoint(geometry, wkid) ==
    IF geometry.cls # "list" THEN EqRaise("InputTypeError")
    ELSE IF geometry.nums # <<>> THEN EqRaise("TypeError")
    ELSE IF \E i \in DOMAIN geometry.pts : Len(geometry.pts[i]) # 2
    THEN EqRaise("InputTypeError")
    ELSE get_payload(wkid, "esriGeometryMultipoint", [points |-> geometry.pts])

esri_bbox(geometry, wkid) ==
    IF ~(geometry.cls \in {"tuple", "list"} /\ Len(Elements(geometry)) = 4)
    THEN EqRaise("InputTypeError")
    ELSE get_payload(wkid, "esriGeometryEnvelope",
                     [xmin |-> Elements(geometry)[1], ymin |-> Elements(geometry)[2],
                      xmax |-> Elements(geometry)[3], ymax |-> Elements(geometry)[4]])

\* the exterior ring only
esri_polygon(geometry, wkid) ==
    IF geometry.cls # "Polygon" THEN EqRaise("InputTypeError")
    ELSE get_payload(wkid, "esriGeometryPolygon", [rings |-> <<geometry.pts>>])

esri_polyline(geometry, wkid) ==
    IF geometry.cls # "LineString" THEN EqRaise("InputTypeError")
    ELSE get_payload(wkid, "esriGeometryPolyline", [paths |-> <<geometry.pts>>])

\* the builder of the given kind (ESRIGeomQuery(geometry, wkid).<kind>())
Builder(kind, geometry, wkid) ==
    CASE kind = "point" -> esri_point(geometry, wkid)
      [] kind = "multipoint" -> esri_multipoint(geometry, wkid)
      [] kind = "bbox" -> esri_bbox(geometry, wkid)
      [] kind = "polygon" -> esri_polygon(geometry, wkid)
      [] kind = "polyline" -> esri_polyline(geometry, wkid)

BuilderKinds == {"point", "multipoint", "bbox", "polygon", "polyline"}

----------------------------------------------------------------------------
(* utils.check_response and utils.RetrySession *)

\* The text of an XML element: None, or a string that may carry white space
\* around its core.
NoText == [none |-> TRUE, ws |-> FALSE, core |-> ""]
Text(ws, core) == [none |-> FALSE, ws |-> ws, core |-> core]

\* str(text).strip()
StrStrip(text) == IF text.none THEN "None" ELSE text.core

\* the string as it is, white space included
Verbatim(text) == IF text.ws THEN " " \o text.core \o " " ELSE text.core

\* A response body: one that does not parse as XML (text), or an XML
\* document, given by the children of its root; each child has a text and
\* the texts of its own children (kids).
TextBody(text) == [xml |-> FALSE, text |-> text, children |-> <<>>]
XmlBody(children) == [xml |-> TRUE, text |-> NoText, children |-> children]
Element(text, kids) == [text |-> text, kids |-> kids]

CrOk(msg) == [kind |-> "ok", msg |-> msg]
CrRaise(kind) == [kind |-> kind, msg |-> ""]

\* check_response(resp): the body itself when it is not XML; otherwise the
\* text of the first child of the root's last child, or of the last child
\* when it has no child. root[-1] of a root without children raises
\* IndexError in the try block and again in its handler.
check_response(resp) ==
    IF ~resp.xml THEN CrOk(Verbatim(resp.text))
    ELSE IF resp.children = <<>> THEN CrRaise("IndexError")
    ELSE LET last == resp.children[Len(resp.children)]
         IN  IF last.kids # <<>> THEN CrOk(StrStrip(last.kids[1]))
             ELSE CrOk(StrStrip(last.text))

\* RetrySession(retries, status_to_retry, prefixes): the adapter with
\* urllib3.Retry(total=retries, status_forcelist=status_to_retry) is mounted
\* on the prefixes
RetrySession(retries, status_to_retry, prefixes) ==
    [retries |-> retries, status_to_retry |-> status_to_retry, prefixes |-> prefixes]

\* the adapter of the session serves the url
Mounted(session, scheme) == scheme \in session.prefixes

\* urllib3.Retry.is_retry: the status of a response is in status_forcelist
\* (allowed_methods=False: whatever the method)
IsRetry(session, scheme, status) ==
    Mounted(session, scheme) /\ status \in session.status_to_retry

\* urllib3.Retry.increment / is_exhausted: total=retries allows that many
\* retries, the next one raises MaxRetryError
IsExhausted(session, tries) == tries >= session.retries

HttpResponse(status, body) == [status |-> status, body |-> body]
NoHttpResponse == HttpResponse(0, TextBody(Text(FALSE, "")))

RsRet(kind, msg, resp) == [kind |-> kind, msg |-> msg, resp |-> resp]

\* resp.raise_for_status(): HTTPError for a 4xx or 5xx status
IsHttpError(resp) == resp.status >= 400 /\ resp.status < 600

\* get, post and head after self.session.<method>(...) has returned resp
Respond(resp) ==
    IF IsHttpError(resp)
    THEN LET c == check_response(resp.body)
         IN  IF c.kind = "ok" THEN RsRet("ServiceError", c.msg, NoHttpResponse)
             ELSE RsRet(c.kind, "", NoHttpResponse)
    ELSE RsRet("ok", "", resp)

----------------------------------------------------------------------------
(* utils.check_bbox and utils.bbox_decompose *)

check_bbox(bbox) == bbox.cls = "tuple" /\ Len(bbox.nums) = 4

\* pyproj.Geod(ellps="GRS80").geometry_length of the segment p-q, in meters,
\* for a segment along a parallel or a meridian: three meters per degree here
GeodLength(p, q) == 3 * (Abs(q[1] - p[1]) + Abs(q[2] - p[2]))

\* a pixel budget per edge rounded up instead of down
NPxRoundedUp(max_px) == ISqrt(max_px) + 1

\* n_px = int(math.sqrt(max_px))
NPx(max_px) == ISqrt(max_px)

\* npt of _split_directional: the pixel counts of the chunks
ChunkPx(px_tot, n_px) ==
    LET q == TruncDiv(px_tot, n_px)
    IN  [k \in 1..(IF q > 0 THEN q ELSE 0) |-> n_px] \o <<px_tot % n_px>>

\* xs of _split_directional: the chunk boundaries, low first
ChunkEdges(low, high, npt) ==
    LET xd == Abs(high - low)
        S == SumSeq(npt)
    IN  <<Rat(low, 1)>> \o
        [k \in 1..Len(npt) |-> Rat(low * S + xd * SumSeq(SubSeq(npt, 1, k)), S)]

\* _split_directional(low, high, px_tot); ok is FALSE when a division by zero
\* (n_px = 0, or sum(npt) = 0) raises ZeroDivisionError
split_directional(low, high, px_tot, n_px) ==
    IF n_px = 0 THEN [ok |-> FALSE, npt |-> <<>>, xs |-> <<>>]
    ELSE LET npt == ChunkPx(px_tot, n_px)
         IN  IF SumSeq(npt) = 0 THEN [ok |-> FALSE, npt |-> npt, xs |-> <<>>]
             ELSE [ok |-> TRUE, npt |-> npt, xs |-> ChunkEdges(low, high, npt)]

\* the label with row and column exchanged
LabelRowFirst(i, j) == ToString(j) \o "_" \o ToString(i)

\* f"{i}_{j}"
Label(i, j) == ToString(i) \o "_" \o ToString(j)

Tile(bx, label, w, h) == [bbox |-> bx, label |-> label, width |-> w, height |-> h]

\* the loops of lines 489-493: rows outermost, Python indices i, j from 0
Grid(nw, xs, nh, ys) ==
    [t \in 1..(Len(nw) * Len(nh)) |->
        LET i == (t - 1) % Len(nw)
            j == (t - 1) \div Len(nw)
        IN  Tile(<<xs[i + 1], ys[j + 1], xs[i + 2], ys[j + 2]>>,
                 Label(i, j), nw[i + 1], nh[j + 1])]

TlRet(kind, tiles, w, h) == [kind |-> kind, tiles |-> tiles, width |-> w, height |-> h]

bbox_decompose(bbox, resolution, box_crs, max_px) ==
    IF ~check_bbox(bbox) THEN TlRet("InputTypeError", <<>>, 0, 0)
    ELSE
    LET west == bbox.nums[1]
        south == bbox.nums[2]
        east == bbox.nums[3]
        north == bbox.nums[4]
        m == match_crs(bbox, box_crs, Ref("int", 4326))
        xmin == m.val.nums[1]
        ymin == m.val.nums[2]
        xmax == m.val.nums[3]
        ymax == m.val.nums[4]
        x_dist == GeodLength(<<xmin, ymin>>, <<xmax, ymin>>)
        y_dist == GeodLength(<<xmin, ymin>>, <<xmin, ymax>>)
        width == CeilDiv(x_dist, resolution)
        height == CeilDiv(y_dist, resolution)
        \* lines 473-474: this list is replaced at line 489 before it is used
        single == IF width * height <= max_px
                  THEN <<Tile(<<Rat(west, 1), Rat(south, 1), Rat(east, 1), Rat(north, 1)>>,
                              "0_0", width, height)>>
                  ELSE <<>>
        n_px == NPx(max_px)
        sw == split_directional(west, east, width, n_px)
        sh == split_directional(south, north, height, n_px)
    IN  IF m.kind # "ok" THEN TlRet(m.kind, <<>>, 0, 0)
        ELSE IF resolution = 0 THEN TlRet("ZeroDivisionError", <<>>, 0, 0)
        ELSE IF max_px < 0 THEN TlRet("ValueError", <<>>, width, height)
        ELSE IF ~sw.ok \/ ~sh.ok THEN TlRet("ZeroDivisionError", <<>>, width, height)
        ELSE TlRet("ok", Grid(sw.npt, sw.xs, sh.npt, sh.xs), width, height)

----------------------------------------------------------------------------
(* Identifier batching: cytoolz.partition_all, WFS.getfeature_byid,           *)
(* ArcGISRESTful.partition_oids                                               *)

SeqRange(s) == {s[i] : i \in DOMAIN s}

\* the orders in which the elements of a set may be iterated
Orderings(S) ==
    {s \in [1..Cardinality(S) -> S] : \A i, j \in 1..Cardinality(S) : i # j => s[i] # s[j]}

\* the elements of S in increasing order
Sorted(S) == CHOOSE s \in Orderings(S) : \A i, j \in DOMAIN s : i < j => s[i] < s[j]

\* cytoolz.partition_all(n, s): consecutive chunks of n, the last one shorter
partition_all(n, s) ==
    [k \in 1..CeilDiv(Len(s), n) |->
        SubSeq(s, (k - 1) * n + 1, IF k * n < Len(s) THEN k * n ELSE Len(s))]

\* the list iterated as it is, duplicates kept
IterationOrdersOfList(featureids) == {featureids}

\* set(featureids): the identifiers without duplicates, iterated in an order
\* that the set decides
IterationOrders(featureids) == Orderings(SeqRange(featureids))

\* ", ".join(f"'{fid}'" for fid in fids)
RECURSIVE JoinQuoted(_)
JoinQuoted(fids) ==
    IF fids = <<>> THEN ""
    ELSE "'" \o ToString(fids[1]) \o "'" \o
         (IF Len(fids) > 1 THEN ", " \o JoinQuoted(Tail(fids)) ELSE "")

\* the request of getfeature_byfilter(f"{featurename} IN ({fids})", method="POST")
FilterRequest(fids) ==
    [method |-> "POST", cql_filter |-> "name IN (" \o JoinQuoted(fids) \o ")"]

\* a Python value passed as identifiers: cls is its class, items its elements
\* (a single int or str is its own only element)
IdsValue(cls, items) == [cls |-> cls, items |-> items]

WfRet(kind, val) == [kind |-> kind, val |-> val]

\* ArcGISRESTfulBase.partition_oids(oids): the identifiers de-duplicated, in
\* increasing order, as strings, in batches of at most max_nrecords; None is
\* not iterable
partition_oids(oids, n) ==
    CASE oids.cls = "None" -> [kind |-> "TypeError", batches |-> <<>>]
      [] oids.cls = "int" -> [kind |-> "ok", batches |-> << <<ToString(oids.items[1])>> >>]
      [] OTHER ->
            LET ordered == Sorted(SeqRange(oids.items))
            IN  [kind |-> "ok",
                 batches |-> partition_all(n, [i \in DOMAIN ordered |-> ToString(ordered[i])])]

----------------------------------------------------------------------------
(* Discovery queries: ArcGISRESTful.oids_bygeom, oids_byfield, oids_bysql *)

valid_spatialrels ==
    {"esriSpatialRelIntersects", "esriSpatialRelContains", "esriSpatialRelCrosses",
     "esriSpatialRelEnvelopeIntersects", "esriSpatialRelIndexIntersects",
     "esriSpatialRelOverlaps", "esriSpatialRelTouches", "esriSpatialRelWithin",
     "esriSpatialRelRelation"}

\* oids_bygeom, lines 153-156: an (x, y) tuple becomes a Point, a list of
\* them a MultiPoint
AsGeometry(geom) ==
    IF geom.cls = "tuple" /\ Len(geom.nums) = 2
    THEN Geom("Point", <<>>, <<geom.nums>>)
    ELSE IF geom.cls = "list" /\ geom.nums = <<>> /\ \A i \in DOMAIN geom.pts : Len(geom.pts[i]) = 2
    THEN Geom("MultiPoint", <<>>, geom.pts)
    ELSE geom

\* ArcGISRESTfulBase.esri_query(geom, geo_crs) builds the payload of a Point,
\* a MultiPoint, a Polygon, a LineString or a bounding box, and raises
\* InputTypeError for anything else
esri_query_accepts(geom) ==
    \/ geom.cls \in {"Point", "MultiPoint", "Polygon", "LineString"}
    \/ geom.cls = "tuple" /\ Len(geom.nums) = 4

\* A JSON response of the query endpoint: oids is the value of "objectIds"
\* (cls "absent" when the key is missing, "None" for null); err tells whether
\* there is an "error" entry and whether it has a "message"
Response(oids, err, msg) == [oids |-> oids, err |-> err, msg |-> msg]

\* outcome of a discovery query; given holds the valid options that an
\* InputValueError lists
DqRet(kind, msg, batches) == [kind |-> kind, msg |-> msg, batches |-> batches, given |-> {}]

\* lines 179-180 and 246-247: the error raised from the except clause
ZeroMatched(resp) ==
    CASE resp.err = "absent" -> DqRet("ZeroMatchedError", "No matched records", <<>>)
      [] resp.err = "message" -> DqRet("ZeroMatchedError", resp.msg, <<>>)
      [] resp.err = "nomessage" -> DqRet("KeyError", "message", <<>>)

\* lines 176-180 and 243-247: the try statement around partition_oids
HandleResponse(resp, n) ==
    IF resp.oids.cls = "absent" THEN ZeroMatched(resp)
    ELSE LET r == partition_oids(resp.oids, n)
         IN  IF r.kind \in {"KeyError", "TypeError"} THEN ZeroMatched(resp)
             ELSE DqRet(r.kind, "", r.batches)

\* the checks of a discovery query without the one of spatial_relation
ValidateWithoutRelation(call) ==
    CASE call.op = "oids_bygeom" ->
            IF ~esri_query_accepts(AsGeometry(call.geom)) THEN "InputTypeError" ELSE "ok"
      [] call.op = "oids_byfield" ->
            IF ~call.field_ok THEN "InputValueError"
            ELSE IF call.ids.cls \notin {"str", "list", "tuple"} THEN "InputTypeError"
            ELSE "ok"
      [] call.op = "oids_bysql" ->
            IF ~call.sql_is_str THEN "InputTypeError" ELSE "ok"

\* what a discovery query does before it sends its request: the error it
\* raises, or "ok"
Validate(call) ==
    CASE call.op = "oids_bygeom" ->
            IF call.rel \notin valid_spatialrels THEN "InputValueError"
            ELSE IF ~esri_query_accepts(AsGeometry(call.geom)) THEN "InputTypeError"
            ELSE "ok"
      [] call.op = "oids_byfield" ->
            IF ~call.field_ok THEN "InputValueError"
            ELSE IF call.ids.cls \notin {"str", "list", "tuple"} THEN "InputTypeError"
            ELSE "ok"
      [] call.op = "oids_bysql" ->
            IF ~call.sql_is_str THEN "InputTypeError" ELSE "ok"

\* self.client.valid_fields: the fields of the layer
valid_fields == {"OBJECTID", "NAME"}

\* the valid options that the InputValueError of a discovery query lists
GivenOptions(call) ==
    IF call.op = "oids_bygeom" THEN valid_spatialrels ELSE valid_fields

----------------------------------------------------------------------------
(* WFS queries: WFS.getfeature_bybox, getfeature_bygeom, getfeature_byfilter *)

valid_predicates ==
    {"EQUALS", "DISJOINT", "INTERSECTS", "TOUCHES", "CROSSES", "WITHIN", "CONTAINS",
     "OVERLAPS", "RELATE", "BEYOND"}

valid_methods == {"GET", "POST"}

\* str.upper() on the predicates of the model
Upper(s) ==
    CASE s = "intersects" -> "INTERSECTS"
      [] s = "within" -> "WITHIN"
      [] OTHER -> s

\* pyproj.CRS(ref).is_geographic
is_geographic(ref) == CRS(ref) = 4326

\* a value passed as cql_filter: is_str tells whether it is a str; a filter
\* that getfeature_bygeom writes is PREDICATE(geom_name, wkt), any other text
\* has the predicate "" and no geometry
Cql(is_str, predicate, wkt) == [is_str |-> is_str, predicate |-> predicate, wkt |-> wkt]

\* outcome of a filter query before its response: an exception (inp and
\* given are the arguments of InputValueError) or the request to send
FlRaise(kind, inp, given) ==
    [kind |-> kind, inp |-> inp, given |-> given, request |-> <<>>]
FlSend(method, body, cql_filter) ==
    [kind |-> "send", inp |-> "", given |-> {},
     request |-> <<[method |-> method, body |-> body, cql_filter |-> cql_filter]>>]

\* getfeature_byfilter up to its request: GET sends the payload as params,
\* POST as form data
getfeature_byfilter(cql_filter, method) ==
    IF ~cql_filter.is_str THEN FlRaise("InputTypeError", "cql_filter", {})
    ELSE IF method \notin valid_methods THEN FlRaise("InputValueError", "method", valid_methods)
    ELSE IF method = "GET" THEN FlSend("GET", "params", cql_filter)
    ELSE FlSend("POST", "data", cql_filter)

\* the request of getfeature_bybox: the payload goes as params, its bbox entry
\* is the four numbers followed by box_crs.to_string()
FlSendBox(bbox, box_crs) ==
    [kind |-> "send", inp |-> "", given |-> {},
     request |-> <<[method |-> "GET", body |-> "params", bbox |-> bbox,
                    bbox_crs |-> CRS(box_crs)]>>]

\* getfeature_bybox up to its request
getfeature_bybox(version, bbox, box_crs, always_xy) ==
    IF ~check_bbox(bbox) THEN FlRaise("InputTypeError", "bbox", {})
    ELSE LET b == bbox.nums
         IN  IF version # "1.0.0" /\ is_geographic(box_crs) /\ ~always_xy
             THEN FlSendBox(<<b[2], b[1], b[4], b[3]>>, box_crs)
             ELSE FlSendBox(b, box_crs)

\* ops.transform(lambda x, y: (y, x), geom)
SwapAxes(geom) == [geom EXCEPT !.pts = [i \in DOMAIN geom.pts |-> <<geom.pts[i][2], geom.pts[i][1]>>]]

\* getfeature_bygeom up to its request; a value that is no shapely geometry
\* has no wkt
getfeature_bygeom(crs_str, version, geometry, geo_crs, always_xy, predicate) ==
    LET m == match_crs(geometry, geo_crs, crs_str)
        g_wkt == IF version # "1.0.0" /\ is_geographic(geo_crs) /\ ~always_xy
                 THEN SwapAxes(m.val)
                 ELSE m.val
    IN  IF m.kind # "ok" THEN FlRaise(m.kind, "", {})
        ELSE IF m.val.cls \notin ShapelyClasses THEN FlRaise("AttributeError", "", {})
        ELSE IF predicate \notin valid_predicates
        THEN FlRaise("InputValueError", "predicate", valid_predicates)
        ELSE getfeature_byfilter(Cql(TRUE, Upper(predicate), g_wkt), "POST")

----------------------------------------------------------------------------
(* The object-ID partition and retry controller that ArcGISRESTful.get_features *)
(* hands its batches to (ArcGISRESTfulBase.get_features)                        *)

\* ArcGISRESTful.__init__: max_workers: int = 1, disable_retry: bool = False
DefaultMaxWorkers == 1
DefaultDisableRetry == FALSE

\* a client that never retries, whatever the caller asks for
ArcGISRESTfulNoRetry(max_workers, disable_retry) ==
    [max_workers |-> max_workers, disable_retry |-> TRUE]

\* a client that always retries, whatever the caller asks for
ArcGISRESTfulRetrying(max_workers, disable_retry) ==
    [max_workers |-> max_workers, disable_retry |-> FALSE]

\* a client that gets one worker less than the caller asks for
ArcGISRESTfulFewerWorkers(max_workers, disable_retry) ==
    [max_workers |-> max_workers - 1, disable_retry |-> disable_retry]

\* a client that gets one worker more than the caller asks for
ArcGISRESTfulMoreWorkers(max_workers, disable_retry) ==
    [max_workers |-> max_workers + 1, disable_retry |-> disable_retry]

\* ArcGISRESTful.__init__: the settings handed to the client
ArcGISRESTful(max_workers, disable_retry) ==
    [max_workers |-> max_workers, disable_retry |-> disable_retry]

\* the configuration of a retrieval: what the caller asked for, the client
\* built from it, whether the failure file is written, and the service's
\* maximum record count
ClientCfg(max_workers, disable_retry, persist, max_nrecords) ==
    [asked |-> [max_workers |-> max_workers, disable_retry |-> disable_retry],
     client |-> ArcGISRESTful(max_workers, disable_retry),
     persist |-> persist, max_nrecords |-> max_nrecords]

\* the retry budget: a single retry pass
RetryBudget == 1

\* partition(identifiers, max_batch_size): the identifiers form a set, so
\* there is no duplicate; consecutive groups of at most max_batch_size, sorted
\* by identifier
partition(identifiers, max_batch_size) == partition_all(max_batch_size, Sorted(identifiers))

\* the slot of one batch of a pass: status is "queued", "inflight" or
\* "collected"; once collected, fetched are the identifiers whose features
\* the fetch returned and failed tells whether the request failed
Slot(status, fetched, failed) == [status |-> status, fetched |-> fetched, failed |-> failed]

\* FetchOutcome.missing = batch.identifiers - fetched
OutcomeMissing(batch, slot) == SeqRange(batch) \ slot.fetched

\* FetchOutcome.payload: the features fetched, in the order of the batch
OutcomePayload(batch, slot) == SelectSeq(batch, LAMBDA i : i \in slot.fetched)

\* the worker pool starts a fetch only while fewer than max_workers are in flight
CanDispatch(inflight, max_workers) == inflight < max_workers

\* the payloads of the batches idx[1], idx[2], ..., one after the other
RECURSIVE Payloads(_, _, _)
Payloads(batches, fetch, idx) ==
    IF idx = <<>> THEN <<>>
    ELSE OutcomePayload(batches[idx[1]], fetch[idx[1]]) \o Payloads(batches, fetch, Tail(idx))

\* the aggregate of a pass: the payloads by batch, not by completion order
Aggregate(batches, fetch, order) == Payloads(batches, fetch, [b \in DOMAIN batches |-> b])

\* the missing identifiers of the batches whose request was answered only
MissingOfAnswered(batches, fetch) ==
    UNION {OutcomeMissing(batches[b], fetch[b]) : b \in {c \in DOMAIN batches : ~fetch[c].failed}}

\* the missing identifiers across all batches of a pass
MissingOf(batches, fetch) ==
    UNION {OutcomeMissing(batches[b], fetch[b]) : b \in DOMAIN batches}

\* retries disabled by the configuration
RetryDisabled(cfg) == cfg.client.disable_retry

\* RECONCILING goes to RETRYING if the missing set is non-empty, retries are
\* not disabled and retry budget remains; otherwise to DONE
ShouldRetry(missing, cfg, pass) ==
    missing # {} /\ ~RetryDisabled(cfg) /\ pass < RetryBudget

----------------------------------------------------------------------------
(* WMS.getmap_bybox *)

\* ar.retrieve_binary(..., max_workers=4, ...)
WmsMaxWorkers == 4

\* a key that names the layer only
PayloadKeyOfLayer(lyr, counter) == lyr

\* f"{lyr}_dd_{counter}"
PayloadKey(lyr, counter) == lyr \o "_dd_" \o counter

\* lines 401-411: the payload common to all requests; kwargs, when a dict,
\* is merged into it
BasePayload(wms, kwargs) ==
    [version |-> wms.version, format |-> wms.outformat, request |-> "GetMap",
     kwargs |-> kwargs = "dict",
     srs_key |-> IF wms.version = "1.1.1" THEN "srs" ELSE "crs",
     srs |-> wms.crs_str]

\* _get_payloads: the key and the payload of one layer and one tile
get_payloads(wms, always_xy, payload, lyr, bnds) ==
    LET b == bnds.bbox
        xy == IF wms.version # "1.1.1" /\ is_geographic(wms.crs_str) /\ ~always_xy
              THEN <<b[2], b[1], b[4], b[3]>>
              ELSE b
    IN  [key |-> PayloadKey(lyr, bnds.label),
         payload |-> [base |-> payload, bbox |-> xy, width |-> ToString(bnds.width),
                      height |-> ToString(bnds.height), layers |-> lyr]]

GmRaise(kind) == [kind |-> kind, reqs |-> <<>>]
GmSend(reqs) == [kind |-> "send", reqs |-> reqs]

\* getmap_bybox up to retrieve_binary: the checks, the tiles, and one request
\* per pair of itertools.product(self.layers, bounds)
getmap_requests(wms, bbox, resolution, box_crs, always_xy, max_px, kwargs) ==
    IF ~check_bbox(bbox) THEN GmRaise("InputTypeError")
    ELSE
    LET m == match_crs(bbox, box_crs, wms.crs_str)
        d == bbox_decompose(m.val, resolution, wms.crs_str, max_px)
        nb == Len(d.tiles)
    IN  IF m.kind # "ok" THEN GmRaise(m.kind)
        ELSE IF d.kind # "ok" THEN GmRaise(d.kind)
        ELSE IF kwargs \notin {"dict", "None"} THEN GmRaise("InputTypeError")
        ELSE IF wms.layers = <<>> THEN GmRaise("ValueError")   \* layers, payloads = zip(*())
        ELSE GmSend([t \in 1..(Len(wms.layers) * nb) |->
                        get_payloads(wms, always_xy, BasePayload(wms, kwargs),
                                     wms.layers[((t - 1) \div nb) + 1],
                                     d.tiles[((t - 1) % nb) + 1])])

\* the bytes that the service returns for a payload
Render(payload) == [map_of |-> payload]

\* dict(zip(layers, rbinary)): rbinary holds the responses in the order of
\* the requests; a later pair replaces an earlier one with the same key
MapDict(reqs) ==
    [k \in {reqs[i].key : i \in DOMAIN reqs} |->
        Render(reqs[Max({i \in DOMAIN reqs : reqs[i].key = k})].payload)]

GmRet(kind, val) == [kind |-> kind, val |-> val]

----------------------------------------------------------------------------
(* The inputs of the identifier operations, and their states when not called *)

Ids == 1..MaxId

IdLists == UNION {[1..k -> Ids] : k \in 0..MaxIds}

\* the values passed as featureids
WfIdsValues ==
    {IdsValue("list", l) : l \in IdLists}
    \cup {IdsValue("tuple", l) : l \in IdLists}
    \cup {IdsValue("int", <<i>>) : i \in Ids}
    \cup {IdsValue("dict", <<>>)}

NoCall == [op |-> "none", rel |-> "", geom |-> NoGeom, field_ok |-> TRUE,
           ids |-> IdsValue("None", <<>>), sql_is_str |-> TRUE]

DqCalls ==
    {[NoCall EXCEPT !.op = "oids_bygeom", !.rel = r, !.geom = g] :
        r \in {"esriSpatialRelIntersects", "esriSpatialRelWithin", "intersects"},
        g \in {Geom("tuple", <<0, 1>>, <<>>), Geom("tuple", <<0, 0, 1, 1>>, <<>>),
               Geom("list", <<>>, << <<0, 0>>, <<1, 1>> >>),
               Geom("Polygon", <<>>, << <<0, 0>>, <<1, 0>>, <<1, 1>>, <<0, 0>> >>),
               Geom("tuple", <<0, 1, 2>>, <<>>)}}
    \cup {[NoCall EXCEPT !.op = "oids_byfield", !.field_ok = f, !.ids = i] :
        f \in BOOLEAN,
        i \in {IdsValue("list", <<1, 2>>), IdsValue("str", <<1>>), IdsValue("int", <<1>>)}}
    \cup {[NoCall EXCEPT !.op = "oids_bysql", !.sql_is_str = b] : b \in BOOLEAN}

\* the values of "objectIds" in a response
OidsValues ==
    {IdsValue("list", l) : l \in IdLists}
    \cup {IdsValue("None", <<>>), IdsValue("absent", <<>>)}

Responses ==
    {Response(o, "absent", "") : o \in OidsValues}
    \cup {Response(o, "message", "bad request") : o \in OidsValues}
    \cup {Response(o, "nomessage", "") : o \in OidsValues}

NoResponse == Response(IdsValue("absent", <<>>), "absent", "")

NoFilterCall ==
    [op |-> "none", crs_str |-> Ref("str", 4326), version |-> "2.0.0", geometry |-> NoGeom,
     geo_crs |-> Ref("int", 4326), always_xy |-> FALSE, predicate |-> "",
     cql_filter |-> Cql(TRUE, "", NoGeom), method |-> ""]

\* the calls of the WFS queries: geometries that are and are not shapely
\* geometries, predicates and methods that are and are not valid, and boxes
\* (passed as geometry, their box_crs as geo_crs) that are and are not
\* 4-tuples
FilterCalls ==
    {[NoFilterCall EXCEPT !.op = "getfeature_bygeom", !.crs_str = Ref("str", c),
                          !.version = v, !.geometry = g, !.geo_crs = Ref("int", gc),
                          !.always_xy = xy, !.predicate = p] :
        c \in {4326, 3857}, v \in {"1.0.0", "2.0.0"},
        g \in {Geom("Polygon", <<>>, << <<0, 1>>, <<2, 1>>, <<2, 2>>, <<0, 1>> >>),
               Geom("tuple", <<0, 0, 1, 1>>, <<>>), NoGeom},
        gc \in {4326, 3857}, xy \in BOOLEAN,
        p \in {"INTERSECTS", "WITHIN", "intersects", "NEAR"}}
    \cup {[NoFilterCall EXCEPT !.op = "getfeature_byfilter", !.cql_filter = Cql(b, "", NoGeom),
                               !.method = m] :
        b \in BOOLEAN, m \in {"GET", "POST", "PUT", "get"}}
    \cup {[NoFilterCall EXCEPT !.op = "getfeature_bybox", !.crs_str = Ref("str", c),
                               !.version = v, !.geometry = g, !.geo_crs = Ref("int", gc),
                               !.always_xy = xy] :
        c \in {4326, 3857}, v \in {"1.0.0", "1.1.0", "2.0.0"},
        g \in {Geom("tuple", <<0, 0, 2, 1>>, <<>>), Geom("tuple", <<0, 1, 1, 2>>, <<>>),
               Geom("list", <<0, 0, 2, 1>>, <<>>)},
        gc \in {4326, 3857}, xy \in BOOLEAN}

FlRet(kind, inp, given) == [kind |-> kind, inp |-> inp, given |-> given]

FlIdle ==
    /\ fl_call = NoFilterCall /\ fl_pc = "idle" /\ fl_sent = <<>>
    /\ fl_ret = FlRet("none", "", {})

NoCfg == ClientCfg(DefaultMaxWorkers, DefaultDisableRetry, TRUE, 1)

GfIdle ==
    /\ gf_ids = {} /\ gf_cfg = NoCfg /\ gf_state = "idle" /\ gf_pass = 0
    /\ gf_pending = {} /\ gf_batches = <<>> /\ gf_fetch = <<>> /\ gf_order = <<>>
    /\ gf_result = <<>> /\ gf_missing = {} /\ gf_file = {} /\ gf_log = <<>>

Wms(version, crs_str, layers) ==
    [version |-> version, crs_str |-> crs_str, layers |-> layers, outformat |-> "image/tiff"]

MapCall(bbox, resolution, box_crs, always_xy, max_px, kwargs) ==
    [bbox |-> bbox, resolution |-> resolution, box_crs |-> box_crs,
     always_xy |-> always_xy, max_px |-> max_px, kwargs |-> kwargs]

GmIdle ==
    /\ gm_wms = Wms("1.3.0", Ref("str", 4326), <<>>)
    /\ gm_call = MapCall(NoGeom, 1, Ref("int", 4326), FALSE, 1, "None")
    /\ gm_pc = "idle" /\ gm_reqs = <<>> /\ gm_slots = <<>> /\ gm_ret = GmRet("none", <<>>)

EqIdle ==
    /\ eq_geom = NoGeom /\ eq_wkid = 4326 /\ eq_kind = "point" /\ eq_pc = "idle"
    /\ eq_ret = EqRaise("none")

WfIdle ==
    /\ wf_call = [name_ok |-> TRUE, ids |-> IdsValue("None", <<>>)] /\ wf_n = 1
    /\ wf_pc = "idle" /\ wf_batches = <<>> /\ wf_sent = <<>> /\ wf_ret = WfRet("none", <<>>)

DqIdle ==
    /\ dq_call = NoCall /\ dq_n = 1 /\ dq_pc = "idle" /\ dq_sent = 0
    /\ dq_resp = NoResponse /\ dq_ret = DqRet("none", "", <<>>)

RsIdle ==
    /\ rs_cfg = RetrySession(0, {}, {})
    /\ rs_call = [method |-> "get", scheme |-> "https://"]
    /\ rs_pc = "idle" /\ rs_tries = 0 /\ rs_resp = NoHttpResponse
    /\ rs_ret = RsRet("none", "", NoHttpResponse)

----------------------------------------------------------------------------
(* The tiler's specification: any call of bbox_decompose *)

Coords == 0..MaxCoord

\* the 4-tuples, and two values check_bbox rejects: a 3-tuple and a list
TilerBoxes ==
    {Geom("tuple", <<w, s, e, n>>, <<>>) : w \in Coords, s \in Coords, e \in Coords, n \in Coords}
    \cup {Geom("tuple", <<0, 0, 1>>, <<>>), Geom("list", <<0, 0, 1, 1>>, <<>>)}

NoTlRet == TlRet("none", <<>>, 0, 0)

McIdle ==
    /\ mc_geom = NoGeom /\ mc_in = Ref("int", 4326) /\ mc_out = Ref("int", 4326)
    /\ mc_pc = "idle" /\ mc_fwd = Raise("none") /\ mc_back = Raise("none")

TlIdle ==
    /\ tl_bbox = NoGeom /\ tl_res = 1 /\ tl_crs = Ref("int", 4326) /\ tl_maxpx = 1
    /\ tl_pc = "idle" /\ tl_ret = NoTlRet

TilerInit ==
    /\ tl_bbox \in TilerBoxes
    /\ tl_res \in -1..MaxRes
    /\ tl_crs \in {Ref("int", c) : c \in CrsCodes}
    /\ tl_maxpx \in -1..MaxPx
    /\ tl_pc = "call"
    /\ tl_ret = NoTlRet
    /\ McIdle /\ WfIdle /\ DqIdle /\ FlIdle /\ GfIdle /\ GmIdle /\ EqIdle /\ RsIdle

BboxDecompose ==
    /\ tl_pc = "call"
    /\ tl_ret' = bbox_decompose(tl_bbox, tl_res, tl_crs, tl_maxpx)
    /\ tl_pc' = "done"
    /\ UNCHANGED <<tl_bbox, tl_res, tl_crs, tl_maxpx, mc_vars, wf_vars, dq_vars, fl_vars, gf_vars, gm_vars, eq_vars, rs_vars>>

TilerNext == BboxDecompose

SpecTiler == TilerInit /\ [][TilerNext]_vars

----------------------------------------------------------------------------
(* The CRS matcher's specification: match_crs(geom, in_crs, out_crs), and     *)
(* then match_crs of its result back from out_crs to in_crs                   *)

Points == {<<x, y>> : x \in Coords, y \in Coords}

\* the values passed as geom: geometries, 4-tuples, coordinate lists, and
\* values of none of the three shapes
McGeoms ==
    {Geom("Point", <<>>, <<p>>) : p \in Points}
    \cup {Geom("LineString", <<>>, <<p, q>>) : p \in Points, q \in Points}
    \cup {Geom("tuple", <<w, s, e, n>>, <<>>) : w \in Coords, s \in Coords, e \in Coords, n \in Coords}
    \cup {Geom("list", <<>>, <<p>>) : p \in Points}
    \cup {Geom("list", <<>>, <<p, q>>) : p \in Points, q \in Points}
    \cup {Geom("list", <<>>, <<>>),
          Geom("list", <<>>, << <<0, 1, 2>> >>),
          Geom("list", <<0, 1>>, <<>>),
          Geom("tuple", <<0, 1>>, <<>>),
          Geom("tuple", <<0, 1, 2>>, <<>>),
          Geom("int", <<1>>, <<>>),
          NoGeom}

CrsInit ==
    /\ mc_geom \in McGeoms
    /\ mc_in \in Refs
    /\ mc_out \in Refs
    /\ mc_pc = "call"
    /\ mc_fwd = Raise("none")
    /\ mc_back = Raise("none")
    /\ TlIdle /\ WfIdle /\ DqIdle /\ FlIdle /\ GfIdle /\ GmIdle /\ EqIdle /\ RsIdle

MatchForward ==
    /\ mc_pc = "call"
    /\ mc_fwd' = match_crs(mc_geom, mc_in, mc_out)
    /\ mc_pc' = "forward"
    /\ UNCHANGED <<mc_geom, mc_in, mc_out, mc_back, tl_vars, wf_vars, dq_vars, fl_vars, gf_vars, gm_vars, eq_vars, rs_vars>>

\* the second call of a round trip; a forward call that raised has no result
MatchBack ==
    /\ mc_pc = "forward"
    /\ mc_fwd.kind = "ok"
    /\ mc_back' = match_crs(mc_fwd.val, mc_out, mc_in)
    /\ mc_pc' = "back"
    /\ UNCHANGED <<mc_geom, mc_in, mc_out, mc_fwd, tl_vars, wf_vars, dq_vars, fl_vars, gf_vars, gm_vars, eq_vars, rs_vars>>

CrsNext == MatchForward \/ MatchBack

SpecCrs == CrsInit /\ [][CrsNext]_vars

----------------------------------------------------------------------------
(* The query builder's specification: one builder of ESRIGeomQuery called on  *)
(* any geometry value                                                         *)

\* the values stored as geometry: the five shapes, and values of other
\* lengths and classes
EqGeoms ==
    {Geom("tuple", <<x, y>>, <<>>) : x \in Coords, y \in Coords}
    \cup {Geom("tuple", <<0, 0, x, y>>, <<>>) : x \in Coords, y \in Coords}
    \cup {Geom("list", <<>>, <<p>>) : p \in Points}
    \cup {Geom("list", <<>>, <<p, <<1, 1>> >>) : p \in Points}
    \cup {Geom("Polygon", <<>>, << <<0, 0>>, p, <<1, 1>>, <<0, 0>> >>) : p \in Points}
    \cup {Geom("LineString", <<>>, << <<0, 0>>, p >>) : p \in Points}
    \cup {Geom("list", <<>>, << <<0, 0>>, <<1, 0>>, <<1, 1>>, <<0, 1>> >>),
          Geom("list", <<0, 0, 1, 1>>, <<>>),
          Geom("list", <<0, 1>>, <<>>),
          Geom("list", <<>>, << <<0, 1, 2>> >>),
          Geom("list", <<>>, <<>>),
          Geom("tuple", <<0, 1, 2>>, <<>>),
          Geom("tuple", <<>>, <<>>),
          Geom("Point", <<>>, << <<0, 1>> >>),
          Geom("int", <<1>>, <<>>),
          NoGeom}

QueryInit ==
    /\ eq_geom \in EqGeoms
    /\ eq_wkid \in {4326, 3857}
    /\ eq_kind \in BuilderKinds
    /\ eq_pc = "call"
    /\ eq_ret = EqRaise("none")
    /\ TlIdle /\ McIdle /\ WfIdle /\ DqIdle /\ FlIdle /\ GfIdle /\ GmIdle /\ RsIdle

BuildQuery ==
    /\ eq_pc = "call"
    /\ eq_ret' = Builder(eq_kind, eq_geom, eq_wkid)
    /\ eq_pc' = "done"
    /\ UNCHANGED <<eq_geom, eq_wkid, eq_kind, tl_vars, mc_vars, wf_vars, dq_vars, fl_vars,
                   gf_vars, gm_vars, rs_vars>>

QueryNext == BuildQuery

SpecQuery == QueryInit /\ [][QueryNext]_vars

----------------------------------------------------------------------------
(* The session's specification: one call of RetrySession.get, post or head *)

\* the statuses that the service answers with
Statuses == {200, 404, 500, 503}

\* the bodies of its responses
Bodies ==
    {TextBody(Text(FALSE, "")), TextBody(Text(FALSE, "Not Found")),
     TextBody(Text(TRUE, "Not Found")),
     XmlBody(<<>>),
     XmlBody(<<Element(Text(TRUE, "bad layer"), <<>>)>>),
     XmlBody(<<Element(NoText, <<>>)>>),
     XmlBody(<<Element(Text(FALSE, "first"), <<>>), Element(NoText, <<Text(TRUE, "bad bbox")>>)>>)}

\* a response to HEAD has no body
BodiesOf(method) == IF method = "head" THEN {TextBody(Text(FALSE, ""))} ELSE Bodies

SessionInit ==
    /\ rs_cfg \in {RetrySession(r, f, p) :
                    r \in 0..MaxRetries, f \in {{500, 502, 504}, {503}, {}},
                    p \in {{"https://"}, {"https://", "http://"}}}
    /\ rs_call \in [method : {"get", "post", "head"}, scheme : {"https://", "http://"}]
    /\ rs_pc = "call" /\ rs_tries = 0 /\ rs_resp = NoHttpResponse
    /\ rs_ret = RsRet("none", "", NoHttpResponse)
    /\ TlIdle /\ McIdle /\ WfIdle /\ DqIdle /\ FlIdle /\ GfIdle /\ GmIdle /\ EqIdle

\* self.session.get / post / head hands the request to the transport
SessionSend ==
    /\ rs_pc = "call"
    /\ rs_pc' = "wire"
    /\ UNCHANGED <<rs_cfg, rs_call, rs_tries, rs_resp, rs_ret,
                   tl_vars, mc_vars, wf_vars, dq_vars, fl_vars, gf_vars, gm_vars, eq_vars>>

\* the service answers with a status of status_to_retry and retries remain:
\* the transport sends the request again
TransportRetries ==
    /\ rs_pc = "wire"
    /\ \E status \in Statuses : \E body \in BodiesOf(rs_call.method) :
        /\ IsRetry(rs_cfg, rs_call.scheme, status)
        /\ ~IsExhausted(rs_cfg, rs_tries)
        /\ rs_resp' = HttpResponse(status, body)
    /\ rs_tries' = rs_tries + 1
    /\ UNCHANGED <<rs_cfg, rs_call, rs_pc, rs_ret,
                   tl_vars, mc_vars, wf_vars, dq_vars, fl_vars, gf_vars, gm_vars, eq_vars>>

\* the service answers with a status of status_to_retry and no retry
\* remains: urllib3 raises MaxRetryError (raise_on_status), which requests
\* raises as RetryError from self.session.<method>(...), before the try block
TransportGivesUp ==
    /\ rs_pc = "wire"
    /\ \E status \in Statuses : \E body \in BodiesOf(rs_call.method) :
        /\ IsRetry(rs_cfg, rs_call.scheme, status)
        /\ IsExhausted(rs_cfg, rs_tries)
        /\ rs_resp' = HttpResponse(status, body)
    /\ rs_ret' = RsRet("RetryError", "", NoHttpResponse)
    /\ rs_pc' = "done"
    /\ UNCHANGED <<rs_cfg, rs_call, rs_tries,
                   tl_vars, mc_vars, wf_vars, dq_vars, fl_vars, gf_vars, gm_vars, eq_vars>>

\* the service answers with another status: the response is returned to
\* get / post / head, which checks its status
TransportAnswers ==
    /\ rs_pc = "wire"
    /\ \E status \in Statuses : \E body \in BodiesOf(rs_call.method) :
        /\ ~IsRetry(rs_cfg, rs_call.scheme, status)
        /\ rs_resp' = HttpResponse(status, body)
        /\ rs_ret' = Respond(HttpResponse(status, body))
    /\ rs_pc' = "done"
    /\ UNCHANGED <<rs_cfg, rs_call, rs_tries,
                   tl_vars, mc_vars, wf_vars, dq_vars, fl_vars, gf_vars, gm_vars, eq_vars>>

SessionNext ==
    \/ SessionSend
    \/ TransportRetries
    \/ TransportGivesUp
    \/ TransportAnswers

SpecSession == SessionInit /\ [][SessionNext]_vars

----------------------------------------------------------------------------
(* The specification of the identifier operations: one call of               *)
(* WFS.getfeature_byid, or one discovery query                                *)

WfInit ==
    /\ wf_call \in {[name_ok |-> b, ids |-> i] : b \in BOOLEAN, i \in WfIdsValues}
    /\ wf_n \in 1..MaxRecords
    /\ wf_pc = "call"
    /\ wf_batches = <<>>
    /\ wf_sent = <<>>
    /\ wf_ret = WfRet("none", <<>>)

DqInit ==
    /\ dq_call \in DqCalls
    /\ dq_n \in 1..MaxRecords
    /\ dq_pc = "call"
    /\ dq_sent = 0
    /\ dq_resp = NoResponse
    /\ dq_ret = DqRet("none", "", <<>>)

FlInit ==
    /\ fl_call \in FilterCalls
    /\ fl_pc = "call"
    /\ fl_sent = <<>>
    /\ fl_ret = FlRet("none", "", {})

IdsInit ==
    /\ TlIdle /\ McIdle /\ GfIdle /\ GmIdle /\ EqIdle /\ RsIdle
    /\ \/ WfInit /\ DqIdle /\ FlIdle
       \/ DqInit /\ WfIdle /\ FlIdle
       \/ FlInit /\ WfIdle /\ DqIdle

\* getfeature_byid, lines 631-646: the checks, and the batches of the
\* de-duplicated identifiers
GetFeatureById ==
    /\ wf_pc = "call"
    /\ IF ~wf_call.name_ok
       THEN wf_ret' = WfRet("InputValueError", <<>>) /\ wf_pc' = "done"
                /\ UNCHANGED wf_batches
       ELSE IF wf_call.ids.cls \notin {"str", "int", "list", "tuple"}
                 \/ Len(wf_call.ids.items) = 0
       THEN wf_ret' = WfRet("InputTypeError", <<>>) /\ wf_pc' = "done"
                /\ UNCHANGED wf_batches
       ELSE /\ \E order \in IterationOrders(wf_call.ids.items) :
                    wf_batches' = partition_all(wf_n, order)
            /\ wf_pc' = "posting"
            /\ UNCHANGED wf_ret
    /\ UNCHANGED <<wf_call, wf_n, wf_sent, tl_vars, mc_vars, dq_vars, fl_vars, gf_vars, gm_vars, eq_vars, rs_vars>>

\* lines 648-651: the request of the next batch, answered
PostBatch ==
    /\ wf_pc = "posting"
    /\ Len(wf_sent) < Len(wf_batches)
    /\ wf_sent' = Append(wf_sent, FilterRequest(wf_batches[Len(wf_sent) + 1]))
    /\ wf_ret' = WfRet("none", Append(wf_ret.val, "response"))
    /\ UNCHANGED <<wf_call, wf_n, wf_pc, wf_batches, tl_vars, mc_vars, dq_vars, fl_vars, gf_vars, gm_vars, eq_vars, rs_vars>>

\* lines 648-651: the request of the next batch, failed: the error of
\* async_retriever leaves getfeature_byid
PostBatchFails ==
    /\ wf_pc = "posting"
    /\ Len(wf_sent) < Len(wf_batches)
    /\ wf_sent' = Append(wf_sent, FilterRequest(wf_batches[Len(wf_sent) + 1]))
    /\ wf_ret' = WfRet("ServiceError", <<>>)
    /\ wf_pc' = "done"
    /\ UNCHANGED <<wf_call, wf_n, wf_batches, tl_vars, mc_vars, dq_vars, fl_vars, gf_vars, gm_vars, eq_vars, rs_vars>>

\* line 648: the list of responses is returned
ReturnFeatures ==
    /\ wf_pc = "posting"
    /\ Len(wf_sent) = Len(wf_batches)
    /\ wf_ret' = WfRet("ok", wf_ret.val)
    /\ wf_pc' = "done"
    /\ UNCHANGED <<wf_call, wf_n, wf_batches, wf_sent, tl_vars, mc_vars, dq_vars, fl_vars, gf_vars, gm_vars, eq_vars, rs_vars>>

\* a discovery query up to its request: the checks, then the POST
SendQuery ==
    /\ dq_pc = "call"
    /\ IF Validate(dq_call) # "ok"
       THEN /\ dq_ret' = [DqRet(Validate(dq_call), "", <<>>) EXCEPT
                            !.given = IF Validate(dq_call) = "InputValueError"
                                      THEN GivenOptions(dq_call) ELSE {}]
            /\ dq_pc' = "done"
            /\ UNCHANGED dq_sent
       ELSE dq_sent' = dq_sent + 1 /\ dq_pc' = "awaiting" /\ UNCHANGED dq_ret
    /\ UNCHANGED <<dq_call, dq_n, dq_resp, tl_vars, mc_vars, wf_vars, fl_vars, gf_vars, gm_vars, eq_vars, rs_vars>>

\* the response arrives and is handled
ReceiveResponse ==
    /\ dq_pc = "awaiting"
    /\ \E resp \in Responses :
        /\ dq_resp' = resp
        /\ dq_ret' = HandleResponse(resp, dq_n)
    /\ dq_pc' = "done"
    /\ UNCHANGED <<dq_call, dq_n, dq_sent, tl_vars, mc_vars, wf_vars, fl_vars, gf_vars, gm_vars, eq_vars, rs_vars>>

\* a filter query up to its request: the checks, then the request
FilterQuery ==
    /\ fl_pc = "call"
    /\ LET c == fl_call
           r == CASE c.op = "getfeature_bygeom" ->
                        getfeature_bygeom(c.crs_str, c.version, c.geometry, c.geo_crs,
                                          c.always_xy, c.predicate)
                  [] c.op = "getfeature_bybox" ->
                        getfeature_bybox(c.version, c.geometry, c.geo_crs, c.always_xy)
                  [] OTHER -> getfeature_byfilter(c.cql_filter, c.method)
       IN  IF r.kind = "send"
           THEN fl_sent' = fl_sent \o r.request /\ fl_pc' = "awaiting" /\ UNCHANGED fl_ret
           ELSE fl_ret' = FlRet(r.kind, r.inp, r.given) /\ fl_pc' = "done"
                    /\ UNCHANGED fl_sent
    /\ UNCHANGED <<fl_call, tl_vars, mc_vars, wf_vars, dq_vars, gf_vars, gm_vars, eq_vars, rs_vars>>

\* ar.retrieve returns the response, or raises when the request failed
FilterResponse ==
    /\ fl_pc = "awaiting"
    /\ \E kind \in {"ok", "ServiceError"} : fl_ret' = FlRet(kind, "", {})
    /\ fl_pc' = "done"
    /\ UNCHANGED <<fl_call, fl_sent, tl_vars, mc_vars, wf_vars, dq_vars, gf_vars, gm_vars, eq_vars, rs_vars>>

IdsNext ==
    \/ FilterQuery
    \/ FilterResponse
    \/ GetFeatureById
    \/ PostBatch
    \/ PostBatchFails
    \/ ReturnFeatures
    \/ SendQuery
    \/ ReceiveResponse

SpecIds == IdsInit /\ [][IdsNext]_vars

----------------------------------------------------------------------------
(* The specification of the fetch operations: one top-level retrieval call of *)
(* the object-ID controller, or one call of WMS.getmap_bybox                  *)

GfInit ==
    /\ gf_ids \in SUBSET Ids
    /\ gf_cfg \in {ClientCfg(w, d, p, n) : w \in 1..MaxWorkers, d \in BOOLEAN,
                                          p \in BOOLEAN, n \in 1..MaxRecords}
    /\ gf_state = "COLLECTING"
    /\ gf_pass = 0
    /\ gf_pending = {} /\ gf_batches = <<>> /\ gf_fetch = <<>> /\ gf_order = <<>>
    /\ gf_result = <<>> /\ gf_missing = {} /\ gf_file = {} /\ gf_log = <<>>

\* the WMS instances and the calls of getmap_bybox: one or two layers (or
\* none, or the same one twice), boxes of one to six tiles, and arguments
\* that are rejected
GmInit ==
    /\ gm_wms \in {Wms(v, Ref("str", c), l) :
                    v \in {"1.1.1", "1.3.0"}, c \in {4326, 3857},
                    l \in {<<"a">>, <<"a", "b">>, <<"a", "a">>, <<>>}}
    /\ gm_call \in {MapCall(b, r, Ref("int", c), xy, px, kw) :
                    b \in {Geom("tuple", <<0, 0, 1, 1>>, <<>>), Geom("tuple", <<0, 0, 2, 1>>, <<>>),
                           Geom("tuple", <<0, 0, 1>>, <<>>)},
                    r \in {1, 3}, c \in {4326, 3857}, xy \in BOOLEAN, px \in {9, 16},
                    kw \in {"None", "dict", "list"}}
    /\ gm_pc = "call"
    /\ gm_reqs = <<>> /\ gm_slots = <<>> /\ gm_ret = GmRet("none", <<>>)

FetchInit ==
    /\ TlIdle /\ McIdle /\ WfIdle /\ DqIdle /\ FlIdle /\ EqIdle /\ RsIdle
    /\ \/ GfInit /\ GmIdle
       \/ GmInit /\ GfIdle

GfInFlight == {b \in DOMAIN gf_fetch : gf_fetch[b].status = "inflight"}
GfQueued == {b \in DOMAIN gf_fetch : gf_fetch[b].status = "queued"}

\* COLLECTING -> BATCHING: the raw identifier set is there
Collect ==
    /\ gf_state = "COLLECTING"
    /\ gf_pending' = gf_ids
    /\ gf_state' = "BATCHING"
    /\ UNCHANGED <<gf_ids, gf_cfg, gf_pass, gf_batches, gf_fetch, gf_order, gf_result,
                   gf_missing, gf_file, gf_log, tl_vars, mc_vars, wf_vars, dq_vars, fl_vars, gm_vars, eq_vars, rs_vars>>

\* BATCHING -> FETCHING: the pending identifiers split into batches
Batch ==
    /\ gf_state = "BATCHING"
    /\ gf_batches' = partition(gf_pending, gf_cfg.max_nrecords)
    /\ gf_fetch' = [b \in DOMAIN gf_batches' |-> Slot("queued", {}, FALSE)]
    /\ gf_order' = <<>>
    /\ gf_state' = "FETCHING"
    /\ UNCHANGED <<gf_ids, gf_cfg, gf_pass, gf_pending, gf_result, gf_missing, gf_file,
                   gf_log, tl_vars, mc_vars, wf_vars, dq_vars, fl_vars, gm_vars, eq_vars, rs_vars>>

\* FETCHING: the pool starts the fetch of the next queued batch
Dispatch ==
    /\ gf_state = "FETCHING"
    /\ GfQueued # {}
    /\ CanDispatch(Cardinality(GfInFlight), gf_cfg.client.max_workers)
    /\ gf_fetch' = [gf_fetch EXCEPT ![Min(GfQueued)].status = "inflight"]
    /\ UNCHANGED <<gf_ids, gf_cfg, gf_state, gf_pass, gf_pending, gf_batches, gf_order,
                   gf_result, gf_missing, gf_file, gf_log,
                   tl_vars, mc_vars, wf_vars, dq_vars, fl_vars, gm_vars, eq_vars, rs_vars>>

\* FETCHING: a fetch in flight completes with the features of some of its
\* identifiers
FetchReturns ==
    /\ gf_state = "FETCHING"
    /\ \E b \in GfInFlight : \E fetched \in SUBSET SeqRange(gf_batches[b]) :
        /\ gf_fetch' = [gf_fetch EXCEPT ![b] = Slot("collected", fetched, FALSE)]
        /\ gf_order' = Append(gf_order, b)
    /\ UNCHANGED <<gf_ids, gf_cfg, gf_state, gf_pass, gf_pending, gf_batches,
                   gf_result, gf_missing, gf_file, gf_log,
                   tl_vars, mc_vars, wf_vars, dq_vars, fl_vars, gm_vars, eq_vars, rs_vars>>

\* FETCHING: the request of a fetch in flight fails; the whole batch counts
\* as missing
FetchFails ==
    /\ gf_state = "FETCHING"
    /\ \E b \in GfInFlight :
        /\ gf_fetch' = [gf_fetch EXCEPT ![b] = Slot("collected", {}, TRUE)]
        /\ gf_order' = Append(gf_order, b)
    /\ UNCHANGED <<gf_ids, gf_cfg, gf_state, gf_pass, gf_pending, gf_batches,
                   gf_result, gf_missing, gf_file, gf_log,
                   tl_vars, mc_vars, wf_vars, dq_vars, fl_vars, gm_vars, eq_vars, rs_vars>>

\* FETCHING -> RECONCILING, once every batch of the pass is collected: the
\* payloads join the result, the missing identifiers are computed
Reconcile ==
    /\ gf_state = "FETCHING"
    /\ \A b \in DOMAIN gf_fetch : gf_fetch[b].status = "collected"
    /\ gf_result' = gf_result \o Aggregate(gf_batches, gf_fetch, gf_order)
    /\ gf_missing' = MissingOf(gf_batches, gf_fetch)
    /\ gf_log' = Append(gf_log, [requested |-> gf_pending, missing |-> gf_missing'])
    /\ gf_state' = "RECONCILING"
    /\ UNCHANGED <<gf_ids, gf_cfg, gf_pass, gf_pending, gf_batches, gf_fetch, gf_order,
                   gf_file, tl_vars, mc_vars, wf_vars, dq_vars, fl_vars, gm_vars, eq_vars, rs_vars>>

\* RECONCILING -> RETRYING
EnterRetry ==
    /\ gf_state = "RECONCILING"
    /\ ShouldRetry(gf_missing, gf_cfg, gf_pass)
    /\ gf_state' = "RETRYING"
    /\ UNCHANGED <<gf_ids, gf_cfg, gf_pass, gf_pending, gf_batches, gf_fetch, gf_order,
                   gf_result, gf_missing, gf_file, gf_log,
                   tl_vars, mc_vars, wf_vars, dq_vars, fl_vars, gm_vars, eq_vars, rs_vars>>

\* RETRYING -> BATCHING, restricted to the missing identifiers
Retry ==
    /\ gf_state = "RETRYING"
    /\ gf_pending' = gf_missing
    /\ gf_pass' = gf_pass + 1
    /\ gf_state' = "BATCHING"
    /\ UNCHANGED <<gf_ids, gf_cfg, gf_batches, gf_fetch, gf_order, gf_result, gf_missing,
                   gf_file, gf_log, tl_vars, mc_vars, wf_vars, dq_vars, fl_vars, gm_vars, eq_vars, rs_vars>>

\* RECONCILING -> DONE: the missing identifiers are reported and, unless
\* suppressed, written to the failure file
Finish ==
    /\ gf_state = "RECONCILING"
    /\ ~ShouldRetry(gf_missing, gf_cfg, gf_pass)
    /\ gf_file' = IF gf_missing # {} /\ gf_cfg.persist THEN gf_missing ELSE gf_file
    /\ gf_state' = "DONE"
    /\ UNCHANGED <<gf_ids, gf_cfg, gf_pass, gf_pending, gf_batches, gf_fetch, gf_order,
                   gf_result, gf_missing, gf_log,
                   tl_vars, mc_vars, wf_vars, dq_vars, fl_vars, gm_vars, eq_vars, rs_vars>>

GmInFlight == {i \in DOMAIN gm_slots : gm_slots[i] = "inflight"}
GmQueued == {i \in DOMAIN gm_slots : gm_slots[i] = "queued"}

\* getmap_bybox up to the call of retrieve_binary
GetMap ==
    /\ gm_pc = "call"
    /\ LET r == getmap_requests(gm_wms, gm_call.bbox, gm_call.resolution, gm_call.box_crs,
                                gm_call.always_xy, gm_call.max_px, gm_call.kwargs)
       IN  IF r.kind = "send"
           THEN /\ gm_reqs' = r.reqs
                /\ gm_slots' = [i \in DOMAIN r.reqs |-> "queued"]
                /\ gm_pc' = "fetching"
                /\ UNCHANGED gm_ret
           ELSE /\ gm_ret' = GmRet(r.kind, <<>>)
                /\ gm_pc' = "done"
                /\ UNCHANGED <<gm_reqs, gm_slots>>
    /\ UNCHANGED <<gm_wms, gm_call, tl_vars, mc_vars, wf_vars, dq_vars, fl_vars, gf_vars, eq_vars, rs_vars>>

\* retrieve_binary starts the next request while fewer than max_workers run
TileDispatch ==
    /\ gm_pc = "fetching"
    /\ GmQueued # {}
    /\ CanDispatch(Cardinality(GmInFlight), WmsMaxWorkers)
    /\ gm_slots' = [gm_slots EXCEPT ![Min(GmQueued)] = "inflight"]
    /\ UNCHANGED <<gm_wms, gm_call, gm_pc, gm_reqs, gm_ret,
                   tl_vars, mc_vars, wf_vars, dq_vars, fl_vars, gf_vars, eq_vars, rs_vars>>

\* a request in flight is answered
TileReturns ==
    /\ gm_pc = "fetching"
    /\ \E i \in GmInFlight : gm_slots' = [gm_slots EXCEPT ![i] = "done"]
    /\ UNCHANGED <<gm_wms, gm_call, gm_pc, gm_reqs, gm_ret,
                   tl_vars, mc_vars, wf_vars, dq_vars, fl_vars, gf_vars, eq_vars, rs_vars>>

\* a request in flight fails: retrieve_binary raises
TileFails ==
    /\ gm_pc = "fetching"
    /\ GmInFlight # {}
    /\ gm_ret' = GmRet("ServiceError", <<>>)
    /\ gm_pc' = "done"
    /\ UNCHANGED <<gm_wms, gm_call, gm_reqs, gm_slots,
                   tl_vars, mc_vars, wf_vars, dq_vars, fl_vars, gf_vars, eq_vars, rs_vars>>

\* every request is answered: the dict of the responses is returned
MapReturn ==
    /\ gm_pc = "fetching"
    /\ \A i \in DOMAIN gm_slots : gm_slots[i] = "done"
    /\ gm_ret' = GmRet("ok", MapDict(gm_reqs))
    /\ gm_pc' = "done"
    /\ UNCHANGED <<gm_wms, gm_call, gm_reqs, gm_slots,
                   tl_vars, mc_vars, wf_vars, dq_vars, fl_vars, gf_vars, eq_vars, rs_vars>>

\* the steps of a retrieval call
RetrievalNext ==
    \/ Collect
    \/ Batch
    \/ Dispatch
    \/ FetchReturns
    \/ FetchFails
    \/ Reconcile
    \/ EnterRetry
    \/ Retry
    \/ Finish

FetchNext ==
    \/ Collect
    \/ Batch
    \/ Dispatch
    \/ FetchReturns
    \/ FetchFails
    \/ Reconcile
    \/ EnterRetry
    \/ Retry
    \/ Finish
    \/ GetMap
    \/ TileDispatch
    \/ TileReturns
    \/ TileFails
    \/ MapReturn

SpecFetch == FetchInit /\ [][FetchNext]_vars

\* a retrieval call alone
RetrievalInit ==
    /\ TlIdle /\ McIdle /\ WfIdle /\ DqIdle /\ FlIdle /\ GmIdle /\ EqIdle /\ RsIdle
    /\ GfInit

\* every request ends (the HTTP client's timeout) and the controller keeps
\* taking its steps
SpecRetrievalFair == RetrievalInit /\ [][RetrievalNext]_vars /\ WF_vars(RetrievalNext)

----------------------------------------------------------------------------
(* Claims about bbox_decompose, under SpecTiler *)

\* bbox_decompose returned a tile list
TlReturned == tl_pc = "done" /\ tl_ret.kind = "ok"

\* the input box, as the tiles write boxes
TlInBox == [k \in 1..4 |-> Rat(tl_bbox.nums[k], 1)]

\* the label "<col>_<row>" of the tile in column col and row row
ColRow(col, row) == ToString(col) \o "_" \o ToString(row)

TlTiles == {tl_ret.tiles[k] : k \in DOMAIN tl_ret.tiles}

\* the numbers of columns and rows, read from the labels of the result: the
\* first col for which no tile is labelled col_0, the first row for which
\* none is labelled 0_row
RECURSIVE TlColsFrom(_)
TlColsFrom(c) ==
    IF \E k \in DOMAIN tl_ret.tiles : tl_ret.tiles[k].label = ColRow(c, 0)
    THEN TlColsFrom(c + 1) ELSE c

RECURSIVE TlRowsFrom(_)
TlRowsFrom(r) ==
    IF \E k \in DOMAIN tl_ret.tiles : tl_ret.tiles[k].label = ColRow(0, r)
    THEN TlRowsFrom(r + 1) ELSE r

TlCols == TlColsFrom(0)
TlRows == TlRowsFrom(0)

\* the tile labelled col_row
TlAt(c, r) ==
    tl_ret.tiles[CHOOSE k \in DOMAIN tl_ret.tiles : tl_ret.tiles[k].label = ColRow(c, r)]

\* two boxes share interior area
Overlap(a, b) ==
    /\ RatLt(a[1], b[3]) /\ RatLt(b[1], a[3])
    /\ RatLt(a[2], b[4]) /\ RatLt(b[2], a[4])

\* C1: whenever total_width_px * total_height_px <= max_px (for a valid call:
\* a 4-tuple of positive width and height, resolution > 0, max_px > 0)
\* bbox_decompose returns exactly one
\* tile: the input box, labelled "0_0", with the total pixel counts.
C1_SingleTileWithinBudget ==
    (/\ tl_pc = "done" /\ check_bbox(tl_bbox) /\ tl_res > 0 /\ tl_maxpx > 0
     /\ tl_bbox.nums[1] < tl_bbox.nums[3] /\ tl_bbox.nums[2] < tl_bbox.nums[4]
     /\ tl_ret.width >= 1 /\ tl_ret.height >= 1
     /\ tl_ret.width * tl_ret.height <= tl_maxpx)
    => /\ tl_ret.kind = "ok"
       /\ tl_ret.tiles = <<Tile(TlInBox, "0_0", tl_ret.width, tl_ret.height)>>

\* C2: the tiles of every decomposition partition the input box: column 0
\* starts at the input west and the last column ends at the input east (rows:
\* south, north), neighbours share their common edge, and no two tiles overlap;
\* for every 4-tuple, west > east or south > north included (and any
\* resolution > 0 and max_px > 0).
C2_TilesPartitionBox ==
    (TlReturned /\ tl_res > 0 /\ tl_maxpx > 0) =>
        /\ \A c \in 0..(TlCols - 1), r \in 0..(TlRows - 1) :
            /\ c = 0 => TlAt(c, r).bbox[1] = TlInBox[1]
            /\ r = 0 => TlAt(c, r).bbox[2] = TlInBox[2]
            /\ c = TlCols - 1 => TlAt(c, r).bbox[3] = TlInBox[3]
            /\ r = TlRows - 1 => TlAt(c, r).bbox[4] = TlInBox[4]
            /\ c > 0 => TlAt(c - 1, r).bbox[3] = TlAt(c, r).bbox[1]
            /\ r > 0 => TlAt(c, r - 1).bbox[4] = TlAt(c, r).bbox[2]
        /\ \A j, k \in DOMAIN tl_ret.tiles :
            j # k => ~Overlap(tl_ret.tiles[j].bbox, tl_ret.tiles[k].bbox)

\* The same statement for the boxes given in (west <= east, south <= north)
\* order, where the code does satisfy it.
C2_OrderedBoxPartitioned ==
    (tl_pc = "done" /\ check_bbox(tl_bbox)
     /\ tl_bbox.nums[1] <= tl_bbox.nums[3] /\ tl_bbox.nums[2] <= tl_bbox.nums[4])
    => C2_TilesPartitionBox

\* C3: every tile of every returned decomposition has width * height <= max_px,
\* the remainder tiles of the last column and the last row included, for every
\* input with max_px >= 1.
C3_TileWithinBudget ==
    (TlReturned /\ tl_maxpx >= 1)
    => \A t \in TlTiles : t.width * t.height <= tl_maxpx

\* a decomposition with a remainder column and a remainder row, whose first
\* tile uses the whole budget
C3_Witness ==
    /\ TlReturned /\ tl_maxpx >= 1 /\ TlCols >= 2 /\ TlRows >= 2
    /\ TlAt(0, 0).width * TlAt(0, 0).height = tl_maxpx
    /\ TlAt(TlCols - 1, TlRows - 1).width \in 1..(TlAt(0, 0).width - 1)
    /\ TlAt(TlCols - 1, TlRows - 1).height \in 1..(TlAt(0, 0).height - 1)

\* C4: the labels of a returned decomposition are exactly the grid
\* {"<col>_<row>" : col < C, row < R}, each once, "0_0" among them; the tile
\* col_row has its west edge on the col-th column boundary from the west and
\* its south edge on the row-th row boundary from the south, so col grows
\* eastward and row northward.
C4_LabelsFormGrid ==
    TlReturned =>
        /\ TlCols >= 1 /\ TlRows >= 1
        /\ Len(tl_ret.tiles) = TlCols * TlRows
        /\ {t.label : t \in TlTiles} =
               {ColRow(c, r) : c \in 0..(TlCols - 1), r \in 0..(TlRows - 1)}
        /\ Cardinality({t.label : t \in TlTiles}) = Len(tl_ret.tiles)
        /\ \A c \in 0..(TlCols - 1), r \in 0..(TlRows - 1) :
            LET b == TlAt(c, r).bbox
            IN  /\ b[1] = (IF c = 0 THEN TlInBox[1] ELSE TlAt(c - 1, r).bbox[3])
                /\ b[2] = (IF r = 0 THEN TlInBox[2] ELSE TlAt(c, r - 1).bbox[4])
                /\ b[1] = TlAt(c, 0).bbox[1]
                /\ b[2] = TlAt(0, r).bbox[2]
                /\ RatLeq(b[1], b[3])
                /\ RatLeq(b[2], b[4])

\* a decomposition of more columns than rows, all of them of positive size
C4_Witness ==
    /\ TlReturned /\ TlCols = 3 /\ TlRows = 2
    /\ \A t \in TlTiles : RatLt(t.bbox[1], t.bbox[3]) /\ RatLt(t.bbox[2], t.bbox[4])

\* C5: a call with resolution <= 0 or max_px <= 0 (and a 4-tuple box) fails
\* with InputValueError and in no other way.
C5_InvalidArgumentsRejected ==
    (tl_pc = "done" /\ check_bbox(tl_bbox) /\ (tl_res <= 0 \/ tl_maxpx <= 0))
    => tl_ret.kind = "InputValueError"

\* C19: zero-length chunks are dropped: for a box of positive width and height
\* (resolution > 0, max_px > 0) every tile has at least one pixel in width and
\* in height and a box with west < east and south < north, also when a total
\* pixel count is an exact multiple of int(sqrt(max_px)).
C19_NoZeroLengthChunks ==
    (/\ TlReturned /\ tl_res > 0 /\ tl_maxpx > 0
     /\ tl_bbox.nums[1] < tl_bbox.nums[3] /\ tl_bbox.nums[2] < tl_bbox.nums[4])
    => \A k \in DOMAIN tl_ret.tiles :
        LET t == tl_ret.tiles[k]
        IN  /\ t.width >= 1 /\ t.height >= 1
            /\ RatLt(t.bbox[1], t.bbox[3]) /\ RatLt(t.bbox[2], t.bbox[4])

\* the pixel widths of the tiles of row r from column c on, and the pixel
\* heights of the tiles of column c from row r on
RECURSIVE TlRowPxFrom(_, _)
TlRowPxFrom(c, r) ==
    IF \E k \in DOMAIN tl_ret.tiles : tl_ret.tiles[k].label = ColRow(c, r)
    THEN TlAt(c, r).width + TlRowPxFrom(c + 1, r) ELSE 0

RECURSIVE TlColPxFrom(_, _)
TlColPxFrom(c, r) ==
    IF \E k \in DOMAIN tl_ret.tiles : tl_ret.tiles[k].label = ColRow(c, r)
    THEN TlAt(c, r).height + TlColPxFrom(c, r + 1) ELSE 0

\* (high - low) * px_tot = px * extent, for the fractions low and high: the
\* share high - low of extent equals the share px of px_tot
SameShare(low, high, extent, px, px_tot) ==
    (high[1] * low[2] - low[1] * high[2]) * px_tot = px * extent * low[2] * high[2]

\* C24: bbox_decompose conserves pixels and keeps the resolution uniform: in
\* every returned decomposition the pixel widths of the tiles of every row sum
\* to the total width in pixels, the pixel heights of the tiles of every
\* column to the total height, and the share of every tile in the extent of
\* the box in x (in y) is its share in the total width (height) in pixels.
C24_PixelsConservedAndProportional ==
    TlReturned =>
        /\ \A r \in 0..(TlRows - 1) : TlRowPxFrom(0, r) = tl_ret.width
        /\ \A c \in 0..(TlCols - 1) : TlColPxFrom(c, 0) = tl_ret.height
        /\ \A k \in DOMAIN tl_ret.tiles :
            LET t == tl_ret.tiles[k]
            IN  /\ SameShare(t.bbox[1], t.bbox[3], Abs(tl_bbox.nums[3] - tl_bbox.nums[1]),
                             t.width, tl_ret.width)
                /\ SameShare(t.bbox[2], t.bbox[4], Abs(tl_bbox.nums[4] - tl_bbox.nums[2]),
                             t.height, tl_ret.height)

\* The same statement for the calls with resolution > 0, where the code does
\* satisfy it.
C24_ConservedForPositiveResolution ==
    tl_res > 0 => C24_PixelsConservedAndProportional

----------------------------------------------------------------------------
(* Claims about match_crs, under SpecCrs *)

McForwardDone == mc_pc \in {"forward", "back"}

\* the three accepted shapes: a shapely geometry, a 4-tuple, a list of
\* 2-element coordinates
McAccepted(g) ==
    \/ g.cls \in ShapelyClasses
    \/ g.cls = "tuple" /\ Len(g.nums) = 4
    \/ g.cls = "list" /\ g.nums = <<>> /\ \A i \in DOMAIN g.pts : Len(g.pts[i]) = 2

\* C6: match_crs fails with InputTypeError for every geom of none of the
\* three accepted shapes, whatever the two references, equal ones included.
C6_BadShapeRejected ==
    (McForwardDone /\ ~McAccepted(mc_geom)) => mc_fwd.kind = "InputTypeError"

\* C7: match_crs(geom, ref, ref') returns geom itself whenever ref and ref'
\* have the same canonical definition, however they are written.
C7_SameCrsIdentity ==
    (McForwardDone /\ McAccepted(mc_geom) /\ CRS(mc_in) = CRS(mc_out))
    => mc_fwd = Ok(mc_geom)

\* a bounding box given east-first, matched between 4326 and "epsg:4326"
C7_Witness ==
    /\ McForwardDone /\ mc_in = Ref("int", 4326) /\ mc_out = Ref("str", 4326)
    /\ mc_geom.cls = "tuple" /\ Len(mc_geom.nums) = 4
    /\ mc_geom.nums[1] > mc_geom.nums[3]
    /\ mc_fwd = Ok(mc_geom)

\* a geometry, a non-empty coordinate list, or a 4-tuple in (west <= east,
\* south <= north) order
McWellFormed(g) ==
    /\ McAccepted(g)
    /\ g.cls = "list" => g.pts # <<>>
    /\ g.cls = "tuple" => g.nums[1] <= g.nums[3] /\ g.nums[2] <= g.nums[4]

Separable(c) == c \in {4326, 3857}

----------------------------------------------------------------------------
(* Claims about the identifier operations, under SpecIds *)

\* the batches B split the set D into ceil(|D| / n) non-empty batches of at
\* most n, no element twice
BatchesOf(B, D, n) ==
    /\ Len(B) = CeilDiv(Cardinality(D), n)
    /\ \A b \in DOMAIN B : Len(B[b]) \in 1..n
    /\ \A b, c \in DOMAIN B : \A i \in DOMAIN B[b], j \in DOMAIN B[c] :
            B[b][i] = B[c][j] => b = c /\ i = j
    /\ UNION {SeqRange(B[b]) : b \in DOMAIN B} = D

WfReturned == wf_pc = "done" /\ wf_ret.kind = "ok"

DqReturned == dq_pc = "done" /\ dq_ret.kind = "ok" /\ dq_resp.oids.cls = "list"

C10_ZeroMatchedRaised ==
    (dq_pc = "done" /\ dq_sent = 1 /\ dq_resp.oids.cls \in {"absent", "None"})
    => /\ dq_ret.kind = "ZeroMatchedError"
       /\ dq_resp.err = "absent" => dq_ret.msg = "No matched records"
       /\ dq_resp.err = "message" => dq_ret.msg = dq_resp.msg

\* C11: a discovery query whose response carries an empty objectIds list
\* raises ZeroMatchedError; a query that returns hands back at least one batch.
C11_EmptyResultRaises ==
    /\ (dq_pc = "done" /\ dq_sent = 1 /\ dq_resp.oids = IdsValue("list", <<>>))
        => dq_ret.kind = "ZeroMatchedError"
    /\ (dq_pc = "done" /\ dq_ret.kind = "ok") => dq_ret.batches # <<>>

\* the other arguments of a filter query are as documented: the geometry a
\* Polygon or MultiPolygon, the filter a str
FlOtherwiseValid ==
    IF fl_call.op = "getfeature_bygeom"
    THEN fl_call.geometry.cls \in {"Polygon", "MultiPolygon"}
    ELSE fl_call.cql_filter.is_str

\* C12: an unsupported spatial_relation (oids_bygeom), predicate
\* (getfeature_bygeom) or method (getfeature_byfilter) ends the call with
\* InputValueError listing the valid options; a call that ends with
\* InputValueError has sent no request, and no call sends a request twice.
C12_InvalidOptionRaisedLocally ==
    /\ (dq_pc = "done" /\ dq_call.op = "oids_bygeom" /\ dq_call.rel \notin valid_spatialrels)
        => /\ dq_ret.kind = "InputValueError"
           /\ dq_ret.given = valid_spatialrels
    /\ (fl_pc = "done" /\ fl_call.op = "getfeature_bygeom" /\ FlOtherwiseValid
            /\ fl_call.predicate \notin valid_predicates)
        => fl_ret = FlRet("InputValueError", "predicate", valid_predicates)
    /\ (fl_pc = "done" /\ fl_call.op = "getfeature_byfilter" /\ FlOtherwiseValid
            /\ fl_call.method \notin valid_methods)
        => fl_ret = FlRet("InputValueError", "method", valid_methods)
    /\ dq_ret.kind = "InputValueError" => dq_sent = 0
    /\ fl_ret.kind = "InputValueError" => fl_sent = <<>>
    /\ dq_sent <= 1 /\ Len(fl_sent) <= 1

\* getfeature_bygeom called with a Polygon and a predicate in lower case
C12_Witness ==
    /\ fl_pc = "done" /\ fl_call.op = "getfeature_bygeom"
    /\ fl_call.geometry.cls = "Polygon" /\ fl_call.predicate = "intersects"
    /\ fl_ret.kind = "InputValueError" /\ fl_sent = <<>>

----------------------------------------------------------------------------
(* Claims about the object-ID retrieval, under SpecFetch *)

GfDone == gf_state = "DONE"

\* the identifiers that the batches of the current pass request
GfRequested == UNION {SeqRange(gf_batches[b]) : b \in DOMAIN gf_batches}

\* C13: with the default disable_retry, a first pass that leaves identifiers
\* missing is followed by exactly one retry pass, whose batches hold exactly
\* the missing identifiers and none that was fetched; there is never a second
\* retry pass, whatever the retry pass returns.
C13_SingleRetryPass ==
    /\ gf_pass <= 1 /\ Len(gf_log) <= 2
    /\ (gf_state = "FETCHING" /\ gf_pass = 1)
        => /\ GfRequested = gf_log[1].missing
           /\ GfRequested # {}
           /\ GfRequested \cap SeqRange(gf_result) = {}
    /\ (GfDone /\ gf_cfg.asked.disable_retry = DefaultDisableRetry)
        => /\ gf_log[1].missing # {} => (Len(gf_log) = 2 /\ gf_pass = 1
                                         /\ gf_log[2].requested = gf_log[1].missing)
           /\ gf_log[1].missing = {} => (Len(gf_log) = 1 /\ gf_pass = 0)

\* a retry pass was made and left identifiers missing again
C13_Witness ==
    /\ GfDone /\ gf_cfg.asked.disable_retry = DefaultDisableRetry
    /\ Len(gf_log) = 2 /\ gf_log[2].missing # {} /\ gf_result # <<>>

\* C14: with disable_retry set there is no retry pass: the first
\* reconciliation is followed by DONE, where every identifier that was not
\* fetched is in the reported missing set and, unless persistence is
\* suppressed, in the failure file; the failure file holds identifiers only
\* at DONE and only if the missing set is non-empty.
C14_DisableRetry ==
    /\ gf_cfg.asked.disable_retry
        => /\ gf_pass = 0 /\ gf_state # "RETRYING" /\ Len(gf_log) <= 1
           /\ GfDone => /\ gf_missing = gf_ids \ SeqRange(gf_result)
                        /\ gf_missing = MissingOf(gf_batches, gf_fetch)
                        /\ gf_cfg.persist => gf_file = gf_missing
    /\ gf_file # {} => (GfDone /\ gf_missing # {} /\ gf_file = gf_missing)
    /\ ~gf_cfg.persist => gf_file = {}

\* retries disabled, identifiers missing after the only pass, written to the
\* failure file
C14_Witness ==
    /\ GfDone /\ gf_cfg.asked.disable_retry /\ gf_cfg.persist
    /\ gf_missing # {} /\ gf_file = gf_missing /\ gf_result # <<>>

\* C15: whatever requests fail and whatever identifiers go missing, the
\* retrieval reaches DONE and stays there, with the features it fetched and
\* the missing identifiers as its result; it has no other final state and it
\* does not stay in RETRYING.
C15_RetrievalTerminates ==
    <>[](GfDone /\ gf_missing = gf_ids \ SeqRange(gf_result))

\* every request of both passes failed, and the retrieval is DONE with
\* nothing fetched and every identifier reported missing
C15_Witness ==
    /\ GfDone /\ Len(gf_log) = 2 /\ gf_ids # {}
    /\ gf_result = <<>> /\ gf_missing = gf_ids
    /\ \A b \in DOMAIN gf_fetch : gf_fetch[b].failed

\* the last entry of the log of passes
GfLastPass == gf_log[Len(gf_log)]

\* the features that the passes of the log fetched, pass by pass, each pass
\* in the order of the identifiers
GfFetchedInOrder ==
    Sorted(gf_ids \ gf_log[1].missing)
    \o (IF Len(gf_log) = 2 THEN Sorted(gf_log[1].missing \ gf_log[2].missing) ELSE <<>>)

\* C16: reconciliation starts only when the outcome of every batch of the pass
\* is collected, and the aggregated result and the missing set depend on what
\* each fetch returned, not on the order in which the fetches completed: the
\* features come pass by pass in the order of their identifiers, and the map
\* of getmap_bybox holds, under each layer and tile label, the response to
\* the request of that layer and tile.
C16_ResultIndependentOfCompletionOrder ==
    /\ gf_state \in {"RECONCILING", "RETRYING", "DONE"}
        => /\ \A b \in DOMAIN gf_fetch : gf_fetch[b].status = "collected"
           /\ Len(gf_order) = Len(gf_batches)
           /\ gf_result = GfFetchedInOrder
           /\ gf_missing = GfLastPass.missing
    /\ (gm_pc = "done" /\ gm_ret.kind = "ok")
        => /\ \A i \in DOMAIN gm_slots : gm_slots[i] = "done"
           /\ DOMAIN gm_ret.val = {gm_reqs[i].key : i \in DOMAIN gm_reqs}
           /\ \A i \in DOMAIN gm_reqs : gm_ret.val[gm_reqs[i].key] = Render(gm_reqs[i].payload)

\* two fetches in flight completed in the reverse order of their batches
C16_Witness ==
    /\ GfDone /\ gf_pass = 0 /\ Len(gf_order) >= 2 /\ gf_order[1] > gf_order[2]
    /\ Len(gf_result) >= 2

\* C17 as stated: the fetches in flight, of identifier batches and of raster
\* tiles, never exceed the configured max_workers, which is 1 by default (WMS
\* has no such setting, so that it is always the default there).
C17_InFlightWithinMaxWorkers ==
    /\ Cardinality(GfInFlight) <= gf_cfg.asked.max_workers
    /\ Cardinality(GmInFlight) <= DefaultMaxWorkers

\* C17 as amended: the batch fetches in flight never exceed the configured
\* max_workers, so that with the default of 1 no batch is dispatched before
\* the one before it is collected; the tile fetches of getmap_bybox in flight
\* never exceed 4, the number that getmap_bybox passes to retrieve_binary.
C17_InFlightBounded ==
    /\ Cardinality(GfInFlight) <= gf_cfg.asked.max_workers
    /\ gf_cfg.asked.max_workers = DefaultMaxWorkers
        => \A b \in DOMAIN gf_fetch :
                gf_fetch[b].status # "queued"
                    => \A a \in 1..(b - 1) : gf_fetch[a].status = "collected"
    /\ Cardinality(GmInFlight) <= 4

\* four tile requests in flight and a fifth one waiting
C17_Witness ==
    /\ gm_pc = "fetching" /\ Cardinality(GmInFlight) = 4 /\ GmQueued # {}

----------------------------------------------------------------------------
(* Claims about ESRIGeomQuery, under SpecQuery *)

IsPair(v) == Len(v) = 2

\* the shape that the builder of a kind is for
HasShapeOf(kind, geom) ==
    CASE kind = "point" -> geom.cls = "tuple" /\ Len(geom.nums) = 2
      [] kind = "multipoint" ->
            geom.cls = "list" /\ geom.nums = <<>>
            /\ \A i \in DOMAIN geom.pts : IsPair(geom.pts[i])
      [] kind = "bbox" -> geom.cls \in {"tuple", "list"} /\ Len(geom.nums) = 4
      [] kind = "polygon" -> geom.cls = "Polygon"
      [] kind = "polyline" -> geom.cls = "LineString"

\* C18: a builder returns a payload exactly when the geometry has the shape of
\* its kind, and raises InputTypeError for every other value; the shapes of
\* the five kinds exclude each other, so that no value is accepted by two
\* builders (a list of four coordinate pairs is not accepted by bbox).
C18_BuildersValidateShape ==
    eq_pc = "done"
    => /\ eq_ret.kind = "ok" <=> HasShapeOf(eq_kind, eq_geom)
       /\ eq_ret.kind # "ok" => eq_ret.kind = "InputTypeError"

----------------------------------------------------------------------------
(* More claims about the object-ID retrieval, under SpecFetch *)

\* C20: at DONE every requested identifier is accounted for exactly once: it
\* is among the fetched features, once, or in the reported missing set, not in
\* both and not in neither; the identifiers of a batch whose request failed in
\* the last pass that requested them are in the missing set.
C20_EveryIdentifierAccountedFor ==
    GfDone
    => /\ SeqRange(gf_result) \cup gf_missing = gf_ids
       /\ SeqRange(gf_result) \cap gf_missing = {}
       /\ Cardinality(SeqRange(gf_result)) = Len(gf_result)
       /\ \A b \in DOMAIN gf_fetch :
            gf_fetch[b].failed => SeqRange(gf_batches[b]) \subseteq gf_missing

\* a retry pass in which one request failed and another one returned features
C20_Witness ==
    /\ GfDone /\ gf_pass = 1
    /\ \E b \in DOMAIN gf_fetch : gf_fetch[b].failed
    /\ \E b \in DOMAIN gf_fetch : gf_fetch[b].fetched # {}
    /\ gf_missing # {} /\ gf_missing # gf_ids

----------------------------------------------------------------------------
(* Claims about WMS.getmap_bybox, under SpecFetch *)

\* the call of getmap_bybox passes the type checks of bbox and kwargs
GmTypesOk == check_bbox(gm_call.bbox) /\ gm_call.kwargs \in {"dict", "None"}

\* the tiles of the call: the decomposition of the box in the service's CRS
GmTiles ==
    bbox_decompose(match_crs(gm_call.bbox, gm_call.box_crs, gm_wms.crs_str).val,
                   gm_call.resolution, gm_wms.crs_str, gm_call.max_px).tiles

\* the requests built for the l-th layer and the k-th tile
GmRequestsOf(l, k) ==
    {i \in DOMAIN gm_reqs :
        /\ gm_reqs[i].key = gm_wms.layers[l] \o "_dd_" \o GmTiles[k].label
        /\ gm_reqs[i].payload.layers = gm_wms.layers[l]
        /\ gm_reqs[i].payload.width = ToString(GmTiles[k].width)
        /\ gm_reqs[i].payload.height = ToString(GmTiles[k].height)
        /\ gm_reqs[i].payload.bbox \in
            {GmTiles[k].bbox,
             <<GmTiles[k].bbox[2], GmTiles[k].bbox[1], GmTiles[k].bbox[4], GmTiles[k].bbox[3]>>}}

\* C21: getmap_bybox dispatches exactly one GetMap request per (layer, tile)
\* pair and returns a dict with exactly one entry per pair, keyed
\* "<layer>_dd_<col>_<row>", whose value is the response to the request built
\* for that layer and tile; a bbox or kwargs of the wrong type fails with
\* InputTypeError before any request is sent.
C21_OneRequestAndOneEntryPerPair ==
    /\ (gm_pc = "done" /\ GmTypesOk)
        => /\ gm_ret.kind \in {"ok", "ServiceError"}
           /\ Len(gm_reqs) = Len(gm_wms.layers) * Len(GmTiles)
           /\ \A l \in DOMAIN gm_wms.layers : \A k \in DOMAIN GmTiles :
                Cardinality(GmRequestsOf(l, k)) = 1
           /\ gm_ret.kind = "ok"
                => /\ Cardinality(DOMAIN gm_ret.val) = Len(gm_wms.layers) * Len(GmTiles)
                   /\ \A l \in DOMAIN gm_wms.layers : \A k \in DOMAIN GmTiles :
                        \A i \in GmRequestsOf(l, k) :
                            /\ gm_reqs[i].key \in DOMAIN gm_ret.val
                            /\ gm_ret.val[gm_reqs[i].key] = Render(gm_reqs[i].payload)
    /\ (gm_pc \in {"fetching", "done"} /\ ~GmTypesOk)
        => /\ gm_pc = "done" /\ gm_ret.kind = "InputTypeError"
           /\ gm_reqs = <<>> /\ gm_slots = <<>>

----------------------------------------------------------------------------
(* Claims about RetrySession, under SpecSession *)

\* C22: get, post and head return a response only when its status is not an
\* HTTP error; for every 4xx/5xx response that remains after the transport's
\* retries they raise ServiceError with the message extracted from the body;
\* the transport never retries a request more often than retries.
C22_HttpErrorsBecomeServiceError ==
    /\ rs_tries <= rs_cfg.retries
    /\ rs_pc = "done"
        => /\ rs_ret.kind = "ok" => (rs_ret.resp = rs_resp /\ ~IsHttpError(rs_resp))
           /\ IsHttpError(rs_resp)
                => /\ rs_ret.kind = "ServiceError"
                   /\ rs_ret.msg = check_response(rs_resp.body).msg

----------------------------------------------------------------------------
(* Claims about the axis order of the OGC requests, under SpecIds *)

\* the rule: swap unless the version is the legacy one or always_xy is set,
\* and only for coordinates of a geographic CRS
AxesSwapped(version, legacy, always_xy, sent_crs) ==
    version # legacy /\ ~always_xy /\ CRS(sent_crs) = 4326

\* the k-th tile of the call of getmap_bybox
GmTileOfRequest(i) ==
    LET tiles == GmTiles IN tiles[((i - 1) % Len(tiles)) + 1]

\* C23: the coordinates of a request of getmap_bybox, getfeature_bybox and
\* getfeature_bygeom are in (y, x) order exactly when the version is not the
\* legacy one (1.1.1 for WMS, 1.0.0 for WFS), always_xy is false and the CRS
\* of the sent coordinates is geographic: the service CRS for getmap_bybox and
\* getfeature_bygeom, box_crs for getfeature_bybox.
C23_AxisOrderFollowsSentCrs ==
    /\ (fl_call.op = "getfeature_bygeom" /\ fl_sent # <<>>)
        => LET g == match_crs(fl_call.geometry, fl_call.geo_crs, fl_call.crs_str).val
               yx == [g EXCEPT !.pts = [i \in DOMAIN g.pts |-> <<g.pts[i][2], g.pts[i][1]>>]]
           IN  fl_sent[1].cql_filter.wkt =
                 IF AxesSwapped(fl_call.version, "1.0.0", fl_call.always_xy, fl_call.crs_str)
                 THEN yx ELSE g
    /\ (fl_call.op = "getfeature_bybox" /\ fl_sent # <<>>)
        => LET b == fl_call.geometry.nums
           IN  fl_sent[1].bbox =
                 IF AxesSwapped(fl_call.version, "1.0.0", fl_call.always_xy, fl_call.geo_crs)
                 THEN <<b[2], b[1], b[4], b[3]>> ELSE b
    /\ gm_reqs # <<>>
        => \A i \in DOMAIN gm_reqs :
            LET b == GmTileOfRequest(i).bbox
            IN  gm_reqs[i].payload.bbox =
                  IF AxesSwapped(gm_wms.version, "1.1.1", gm_call.always_xy, gm_wms.crs_str)
                  THEN <<b[2], b[1], b[4], b[3]>> ELSE b

====
